---- MODULE Spec2Model ----
(***************************************************************************)
(* CVEMaps: the per-script loader/normalizer/aggregator passes and the     *)
(* graph projections built from them.  One run of one builder script is    *)
(* modelled: the script walks the corpus file by file, then builds and     *)
(* exports its projections in the order of its main().                     *)
(*                                                                         *)
(* Python values: a dict is a sequence of <<key, value>> pairs in          *)
(* insertion order, a set is a set, None and absent JSON keys are None.    *)
(* Timestamps are whole days; scores are tenths (7.5 is 75).               *)
(***************************************************************************)
EXTENDS Integers, Sequences, FiniteSets, TLC

VARIABLES script, pc, files, outcome, data, graphs, exported

vars == <<script, pc, files, outcome, data, graphs, exported>>

-----------------------------------------------------------------------------
(* Bounds                                                                  *)

\* number of directory entries the walk yields in one run
MaxFiles == 2

\* the top_n, top_cnas, top_cwes and top_vendors cuts of the builders, scaled to the corpus
TopN == 2

\* min_shared_cwes of the collaboration network, scaled to the corpus
MIN_SHARED_CWES == 2

-----------------------------------------------------------------------------
(* Python helpers                                                          *)

None == "<None>"

\* truthiness of a str-or-None value
Truthy(v) == v # None /\ v # ""

\* a or b
Or(a, b) == IF Truthy(a) THEN a ELSE b

\* str.startswith, str.endswith
startswith(s, prefix) ==
    Len(s) >= Len(prefix) /\ SubSeq(s, 1, Len(prefix)) = prefix

endswith(s, suffix) ==
    Len(s) >= Len(suffix) /\ SubSeq(s, Len(s) - Len(suffix) + 1, Len(s)) = suffix

\* `if not filename.startswith("CVE-") or not filename.endswith(".json"): continue`
IsCveFile(filename) == startswith(filename, "CVE-") /\ endswith(filename, ".json")

\* the one-character strings of an alphabet, each with its position in it
Positions(alphabet) ==
    [c \in {SubSeq(alphabet, i, i) : i \in 1..Len(alphabet)} |->
        CHOOSE i \in 1..Len(alphabet) : SubSeq(alphabet, i, i) = c]

UpperCase == Positions("ABCDEFGHIJKLMNOPQRSTUVWXYZ")
LowerCase == Positions("abcdefghijklmnopqrstuvwxyz")
Digits == Positions("0123456789")

\* the characters of the corpus in code-point order
Ascii == Positions(" -./0123456789:ABCDEFGHIJKLMNOPQRSTUVWXYZ_abcdefghijklmnopqrstuvwxyz")

\* position of the one-character string c in an alphabet, 0 when absent
IndexIn(c, alphabet) == IF c \in DOMAIN alphabet THEN alphabet[c] ELSE 0

\* the character at a position of an alphabet
CharAt(alphabet, i) == CHOOSE c \in DOMAIN alphabet : alphabet[c] = i

ToLower == [c \in DOMAIN UpperCase |-> CharAt(LowerCase, UpperCase[c])]
ToUpper == [c \in DOMAIN LowerCase |-> CharAt(UpperCase, LowerCase[c])]

lower_char(c) == IF c \in DOMAIN ToLower THEN ToLower[c] ELSE c

upper_char(c) == IF c \in DOMAIN ToUpper THEN ToUpper[c] ELSE c

IsAlpha(c) == c \in DOMAIN UpperCase \/ c \in DOMAIN LowerCase

\* str.lower
RECURSIVE lower(_)
lower(s) == IF s = "" THEN "" ELSE lower_char(SubSeq(s, 1, 1)) \o lower(SubSeq(s, 2, Len(s)))

\* str.replace for a one-character `old`
RECURSIVE replace(_, _, _)
replace(s, old, new) ==
    IF s = "" THEN ""
    ELSE (IF SubSeq(s, 1, 1) = old THEN new ELSE SubSeq(s, 1, 1))
         \o replace(SubSeq(s, 2, Len(s)), old, new)

\* str.title: a letter is upper-cased after a non-letter, lower-cased after a letter
RECURSIVE title_from(_, _)
title_from(s, prev_alpha) ==
    IF s = "" THEN ""
    ELSE LET c == SubSeq(s, 1, 1) IN
         (IF prev_alpha THEN lower_char(c) ELSE upper_char(c))
         \o title_from(SubSeq(s, 2, Len(s)), IsAlpha(c))

title(s) == title_from(s, FALSE)

\* str.strip
RECURSIVE lstrip(_)
lstrip(s) == IF s # "" /\ SubSeq(s, 1, 1) = " " THEN lstrip(SubSeq(s, 2, Len(s))) ELSE s

RECURSIVE rstrip(_)
rstrip(s) ==
    IF s # "" /\ SubSeq(s, Len(s), Len(s)) = " " THEN rstrip(SubSeq(s, 1, Len(s) - 1)) ELSE s

strip(s) == rstrip(lstrip(s))

\* the elements of a list
Range(seq) == {seq[i] : i \in DOMAIN seq}

\* the orders in which a set may be iterated
Perms(S) ==
    {p \in [1..Cardinality(S) -> S] : \A i, j \in 1..Cardinality(S) : p[i] = p[j] => i = j}

\* an iteration order of a set, for loops whose result does not depend on it
AnyOrder(S) == CHOOSE p \in Perms(S) : TRUE

\* a < b on str
RECURSIVE str_lt(_, _)
str_lt(a, b) ==
    IF b = "" THEN FALSE
    ELSE IF a = "" THEN TRUE
    ELSE IF SubSeq(a, 1, 1) = SubSeq(b, 1, 1)
    THEN str_lt(SubSeq(a, 2, Len(a)), SubSeq(b, 2, Len(b)))
    ELSE IndexIn(SubSeq(a, 1, 1), Ascii) < IndexIn(SubSeq(b, 1, 1), Ascii)

\* a < b on tuples of two str
pair_lt(a, b) == str_lt(a[1], b[1]) \/ (a[1] = b[1] /\ str_lt(a[2], b[2]))

\* sorted(S) for a set of str, and for a set of tuples
sorted(S) == CHOOSE p \in Perms(S) : \A i \in 1..(Cardinality(S) - 1) : str_lt(p[i], p[i + 1])

sorted_pairs(S) == CHOOSE p \in Perms(S) : \A i \in 1..(Cardinality(S) - 1) : pair_lt(p[i], p[i + 1])

\* list(itertools.combinations(seq, 2))
RECURSIVE combinations(_)
combinations(seq) ==
    IF Len(seq) < 2 THEN <<>>
    ELSE [j \in 1..(Len(seq) - 1) |-> <<seq[1], seq[j + 1]>>] \o combinations(Tail(seq))

\* the concatenation of a list of lists
RECURSIVE Flatten(_)
Flatten(seqs) == IF seqs = <<>> THEN <<>> ELSE Head(seqs) \o Flatten(Tail(seqs))

\* dict: keys(), `k in d`, d.get(k, default)
Keys(d) == {d[i][1] : i \in DOMAIN d}

Has(d, k) == k \in Keys(d)

Get(d, k, default) ==
    IF Has(d, k) THEN d[CHOOSE i \in DOMAIN d : d[i][1] = k][2] ELSE default

\* d[k] = v
Put(d, k, v) ==
    IF Has(d, k)
    THEN [i \in DOMAIN d |-> IF d[i][1] = k THEN <<k, v>> ELSE d[i]]
    ELSE Append(d, <<k, v>>)

\* defaultdict(int): d[k] += n
IncBy(d, k, n) == Put(d, k, Get(d, k, 0) + n)

\* a mistaken accumulation: d[k] = 1 in place of d[k] += 1
IncAssign(d, k) == Put(d, k, 1)

\* defaultdict(int): d[k] += 1
Inc(d, k) == IncBy(d, k, 1)

\* defaultdict(set): d[k].add(x)
AddTo(d, k, x) == Put(d, k, Get(d, k, {}) \cup {x})

\* an accumulation that counts a document once, under its first key
IncFirstKey(d, keys) == IF keys = <<>> THEN d ELSE Inc(d, Head(keys))

\* d[k] += 1 for each k of a list of keys, in order
RECURSIVE IncKeys(_, _)
IncKeys(d, keys) ==
    IF keys = <<>> THEN d ELSE IncKeys(Inc(d, Head(keys)), Tail(keys))

\* the keys (a, b) for b in order
PairsFrom(a, order) == [i \in DOMAIN order |-> <<a, order[i]>>]

\* the keys (a, b) for b in order
PairsTo(order, b) == [i \in DOMAIN order |-> <<order[i], b>>]

\* the keys (a, b) of `for b in outer: for a in inner`
Nested(inner, outer) ==
    [k \in 1..(Len(inner) * Len(outer)) |->
        <<inner[((k - 1) % Len(inner)) + 1], outer[((k - 1) \div Len(inner)) + 1]>>]

\* d.get(field) on a JSON object held as a record
Field(r, f, default) == IF f \in DOMAIN r THEN r[f] ELSE default

\* sorted(d.items(), key=lambda x: x[1], reverse=True): stable, largest first
RECURSIVE InsertDesc(_, _)
InsertDesc(items, item) ==
    IF items = <<>> THEN <<item>>
    ELSE IF Head(items)[2] >= item[2] THEN <<Head(items)>> \o InsertDesc(Tail(items), item)
    ELSE <<item>> \o items

RECURSIVE SortedDesc(_)
SortedDesc(items) ==
    IF items = <<>> THEN <<>>
    ELSE InsertDesc(SortedDesc(SubSeq(items, 1, Len(items) - 1)), items[Len(items)])

\* seq[n:], the cut written the wrong way round
Drop(seq, n) == SubSeq(seq, n + 1, Len(seq))

\* seq[:n]
Take(seq, n) == SubSeq(seq, 1, IF n < Len(seq) THEN n ELSE Len(seq))

\* sum(d.values())
RECURSIVE SumValues(_)
SumValues(d) == IF d = <<>> THEN 0 ELSE Head(d)[2] + SumValues(Tail(d))

-----------------------------------------------------------------------------
(* Timestamps                                                              *)

\* cutoff_date = now(utc) - days_back, as a day number
cutoff_date == 10

\* date_published.replace("Z", "+00:00")
ReplaceZ(d) == IF d.fmt = "Z" THEN [d EXCEPT !.fmt = "+00:00"] ELSE d

\* datetime.fromisoformat(date_published.replace("Z", "+00:00"))
fromisoformat(d) ==
    IF d.fmt = "nonstr" THEN [exc |-> "AttributeError"]
    ELSE LET s == ReplaceZ(d) IN
         IF s.fmt = "+00:00" THEN [exc |-> None, tzinfo |-> "utc", t |-> s.day]
         ELSE IF s.fmt = "naive" THEN [exc |-> None, tzinfo |-> None, t |-> s.day]
         ELSE [exc |-> "ValueError"]

\* `if date_published:`
DateTruthy(d) == d.fmt \notin {"absent", "empty"}

\* the body of the inner try: parse, then compare with the timezone-aware cutoff.
\* `assume_utc` is the `if pub_date.tzinfo is None: replace(tzinfo=utc)` step.
\* Gives "before", "ok" or the exception raised.
date_check(date_published, assume_utc) ==
    LET pub_date == fromisoformat(date_published) IN
    IF pub_date.exc # None THEN pub_date.exc
    ELSE IF pub_date.tzinfo = None /\ ~assume_utc THEN "TypeError"
    ELSE IF pub_date.t < cutoff_date THEN "before"
    ELSE "ok"

\* a date check without the naive-timestamp step
date_check_aware_only(date_published) == date_check(date_published, FALSE)

\* scripts/build_graph.py: naive timestamps are made UTC before the comparison
date_check_utc(date_published) == date_check(date_published, TRUE)

-----------------------------------------------------------------------------
(* Raw documents                                                           *)

\* one entry of problemTypes[].descriptions[]
Desc(type, cweId, value) == [py |-> "dict", type |-> type, cweId |-> cweId, value |-> value]

\* a descriptions[] entry that is a JSON string, not an object
BadDesc == [py |-> "str", type |-> None, cweId |-> None, value |-> None]

\* one entry of affected[]; an absent key is "", a JSON null is None
Item(vendor, product) == [vendor |-> vendor, product |-> product]

Z(day) == [fmt |-> "Z", day |-> day]
Naive(day) == [fmt |-> "naive", day |-> day]
NoDate == [fmt |-> "absent", day |-> 0]
BadDate == [fmt |-> "garbage", day |-> 0]

\* a well-formed file; cveId "CVE" is replaced by the file's own id
Doc(day, org, short, cna, adp) ==
    [name |-> "CVE-n.json", load |-> "ok", cveId |-> "CVE",
     datePublished |-> day, assignerOrgId |-> org, assignerShortName |-> short,
     problemTypes |-> cna, adp |-> [is_list |-> TRUE, problemTypes |-> adp],
     affected |-> <<>>, metrics |-> <<>>, references |-> <<>>]

\* the same file with its affected, metrics and references entries
Rich(doc, affected, metrics, references) ==
    [doc EXCEPT !.affected = affected, !.metrics = metrics, !.references = references]

\* the identifiers of the files of the corpus, one per file
CveIds == <<"CVE-2024-0001", "CVE-2024-0002", "CVE-2024-0003", "CVE-2024-0004", "CVE-2024-0005">>

\* file number n of the walk, holding the document t
FileOf(t, n) == IF t.cveId = "CVE" THEN [t EXCEPT !.cveId = CveIds[n]] ELSE t

Xss == Desc("CWE", "CWE-79", None)
Sqli == Desc("CWE", "CWE-89", None)
\* legacy format: the code is in `value`
SqliLegacy == Desc("CWE", None, "CWE-89")
\* a CWE-tagged description whose value lacks the prefix, and a text description
Other == Desc("CWE", None, "NVD-CWE-Other")
Text == Desc("text", "CWE-20", None)

After == Z(cutoff_date + 1)
Before == Z(cutoff_date - 1)

\* cvss_v3.get("baseScore") of a block without the key
NoScore == -1

High == [cvssV3_1 |-> [baseScore |-> 75, baseSeverity |-> "HIGH"]]
Critical == [cvssV3_0 |-> [baseScore |-> 98, baseSeverity |-> "CRITICAL"]]
Legacy2 == [cvssV2_0 |-> [baseScore |-> 50]]
\* a metric block that carries a vector and a label but no base score
Unscored == [cvssV3_1 |-> [baseSeverity |-> "HIGH"]]

Plain == Doc(After, "uuid-1", "A", <<Xss>>, <<>>)

\* a CNA section with two codes; the same code in the CNA and an ADP section
TwoCodes == Doc(After, "uuid-1", "A", <<Xss, Sqli>>, <<>>)
Repeated == Doc(Z(cutoff_date), "uuid-1", "A", <<Xss, Text>>, <<Xss>>)
\* no timestamp, a legacy code in an ADP section; an authority without a short name
Undated == Doc(NoDate, "uuid-2", "B", <<Other>>, <<SqliLegacy>>)
Unnamed == Doc(After, "uuid-3", None, <<Sqli>>, <<>>)
\* another identifier that carries the short name of uuid-1
Alias == Doc(After, "uuid-4", "A", <<Xss>>, <<>>)
\* another record of that authority, which supplies the short name
Named == Doc(After, "uuid-3", "C", <<Sqli>>, <<>>)

\* timestamps before the cutoff, without an offset, and unparseable
Early == Doc(Before, "uuid-2", "B", <<Xss>>, <<>>)
NaiveEarly == Doc(Naive(cutoff_date - 1), "uuid-2", "B", <<Xss>>, <<>>)
NaiveLate == Doc(Naive(cutoff_date + 1), "uuid-2", "B", <<Xss>>, <<>>)
Garbled == Doc(BadDate, "uuid-2", "B", <<Xss>>, <<>>)

\* no cveId; not JSON; unreadable; a JSON list; not a CVE file; no assignerOrgId;
\* a description that is not an object
Anonymous == [Plain EXCEPT !.cveId = None]
Malformed == [Plain EXCEPT !.load = "JSONDecodeError"]
Unreadable == [Plain EXCEPT !.load = "OSError"]
WrongType == [Plain EXCEPT !.load = "list"]
Readme == [Plain EXCEPT !.name = "README.md"]
Orphan == Doc(After, None, "A", <<Xss>>, <<>>)
Poisoned == Doc(After, "uuid-2", "B", <<Xss, BadDesc>>, <<>>)

\* documents with affected products, severity metrics and references
RichDocs ==
    { Rich(TwoCodes, <<Item("acme_corp", "widget")>>, <<High>>, <<"https://a", "https://b">>),
      Rich(Doc(Z(cutoff_date), "uuid-1", "A", <<Xss>>, <<Xss>>),
           <<Item(" ACME CORP", "widget"), Item("n/a", "gadget")>>, <<Critical, Legacy2>>,
           <<"https://a", " https://b ">>),
      Rich(Doc(Z(cutoff_date + 2), "uuid-2", "B", <<>>, <<SqliLegacy>>),
           <<Item("acme_corp", "widget"), Item("initech", "")>>, <<>>, <<"https://b", "">>),
      Rich(Doc(NoDate, "uuid-2", "B", <<Sqli>>, <<>>),
           <<Item("initech", "tps")>>, <<Unscored>>, <<>>),
      Rich(Doc(After, "uuid-2", "B", <<Xss>>, <<>>),
           <<Item("initech", "tps"), Item(None, "tps")>>, <<High>>, <<"https://a">>) }

\* published more than a chaining window after the others
Late == Rich(Doc(Z(cutoff_date + 40), "uuid-3", None, <<Sqli>>, <<>>),
             <<Item("acme_corp", "widget")>>, <<>>, <<>>)

\* documents of the authority the ego network is centred on, and of two
\* others; the last one names its weakness in `value`, without a number
CompactDocs ==
    { Doc(After, "uuid-m", "mitre", <<Xss, Sqli>>, <<>>),
      Doc(Z(cutoff_date), "uuid-m", "mitre", <<Xss>>, <<Xss>>),
      Doc(After, "uuid-2", "B", <<Sqli, Xss>>, <<>>),
      Doc(After, "uuid-3", None, <<Desc("CWE", "CWE-119", None)>>, <<>>),
      Doc(After, "uuid-2", "B", <<Desc("CWE", None, "CWE-0xx")>>, <<>>) }

-----------------------------------------------------------------------------
(* Weakness codes, vendors, products, references, scores                   *)

\* the loop over one section's descriptions: the codes added, in order
RECURSIVE ScanDescriptions(_)
ScanDescriptions(descriptions) ==
    IF descriptions = <<>> THEN [exc |-> None, adds |-> <<>>]
    ELSE LET desc == Head(descriptions) IN
         IF desc.py # "dict" THEN [exc |-> "AttributeError", adds |-> <<>>]
         ELSE LET cwe_value == Or(desc.cweId, desc.value)
                  rest == ScanDescriptions(Tail(descriptions))
              IN IF desc.type = "CWE" /\ Truthy(cwe_value) /\ startswith(cwe_value, "CWE-")
                 THEN [rest EXCEPT !.adds = <<cwe_value>> \o @]
                 ELSE rest

\* the CNA container, then the ADP containers when `adp` is a list
ScanWeaknesses(doc) ==
    LET cna == ScanDescriptions(doc.problemTypes)
        adp == ScanDescriptions(doc.adp.problemTypes)
    IN IF cna.exc # None \/ ~doc.adp.is_list THEN cna
       ELSE [exc |-> adp.exc, adds |-> cna.adds \o adp.adds]

\* build_extended_graphs.py lines 116-123: the cleaned vendor names, in order
RECURSIVE ScanVendors(_)
ScanVendors(affected) ==
    IF affected = <<>> THEN [exc |-> None, adds |-> <<>>]
    ELSE IF Head(affected).vendor = None THEN [exc |-> "AttributeError", adds |-> <<>>]
    ELSE LET vendor == strip(Head(affected).vendor)
             rest == ScanVendors(Tail(affected))
         IN IF vendor # "" /\ lower(vendor) \notin {"n/a", "unknown", ""}
            THEN [rest EXCEPT !.adds = <<title(replace(lower(vendor), "_", " "))>> \o @]
            ELSE rest

\* build_alternative_graphs.py lines 102-111: the vendors and (vendor, product) pairs added
RECURSIVE ScanAffected(_)
ScanAffected(affected) ==
    IF affected = <<>> THEN [exc |-> None, vendors |-> <<>>, products |-> <<>>]
    ELSE IF Head(affected).vendor = None \/ Head(affected).product = None
    THEN [exc |-> "AttributeError", vendors |-> <<>>, products |-> <<>>]
    ELSE LET vendor == strip(Head(affected).vendor)
             product == strip(Head(affected).product)
             rest == ScanAffected(Tail(affected))
         IN [rest EXCEPT
                !.vendors = IF vendor # "" THEN <<vendor>> \o @ ELSE @,
                !.products = IF vendor # "" /\ product # "" THEN <<<<vendor, product>>>> \o @ ELSE @]

\* build_alternative_graphs.py lines 114-118: the URLs added
RECURSIVE ScanReferences(_)
ScanReferences(references) ==
    IF references = <<>> THEN <<>>
    ELSE IF strip(Head(references)) # ""
    THEN <<strip(Head(references))>> \o ScanReferences(Tail(references))
    ELSE ScanReferences(Tail(references))

\* build_extended_graphs.py lines 126-154: one entry per metric, first version present
RECURSIVE ScanMetrics(_)
ScanMetrics(metrics) ==
    IF metrics = <<>> THEN <<>>
    ELSE LET metric == Head(metrics)
             entry(key, version, labelled) ==
                 [version |-> version,
                  baseScore |-> Field(metric[key], "baseScore", NoScore),
                  baseSeverity |-> IF labelled THEN Field(metric[key], "baseSeverity", None) ELSE None]
         IN (IF "cvssV3_1" \in DOMAIN metric THEN <<entry("cvssV3_1", "3.1", TRUE)>>
             ELSE IF "cvssV3_0" \in DOMAIN metric THEN <<entry("cvssV3_0", "3.0", TRUE)>>
             ELSE IF "cvssV2_0" \in DOMAIN metric THEN <<entry("cvssV2_0", "2.0", FALSE)>>
             ELSE <<>>)
            \o ScanMetrics(Tail(metrics))

-----------------------------------------------------------------------------
(* scripts/build_graph.py and build_graph.py: parse_cve_files              *)

\* `if cna_short_name and cna_uuid not in cna_names: ... elif ...`
StoreName(cna_names, cna_uuid, cna_short_name) ==
    IF Truthy(cna_short_name) /\ ~Has(cna_names, cna_uuid)
    THEN Put(cna_names, cna_uuid, cna_short_name)
    ELSE IF ~Has(cna_names, cna_uuid) THEN Put(cna_names, cna_uuid, cna_uuid)
    ELSE cna_names

\* a skip that is counted twice
SkippedTwice(d) == [data |-> [d EXCEPT !.skipped_files = @ + 2], outcome |-> "error"]

\* the `except` clauses: the file is counted as skipped
Skipped(d) == [data |-> [d EXCEPT !.skipped_files = @ + 1], outcome |-> "error"]

\* the authority, the weakness set and the associations of one document
ExtractCnaCwe(d, doc) ==
    LET cna_uuid == doc.assignerOrgId
        cna_short_name == doc.assignerShortName
    IN
    IF ~Truthy(cna_uuid)
    THEN {[data |-> [d EXCEPT !.skipped_files = @ + 1], outcome |-> "no authority"]}
    ELSE LET named == [d EXCEPT !.cna_names = StoreName(@, cna_uuid, cna_short_name)]
             scan == ScanWeaknesses(doc)
             cwes_found == Range(scan.adds)
         IN
         IF scan.exc # None THEN {Skipped(named)}
         ELSE {[data |-> [named EXCEPT
                    !.associations = IncKeys(@, PairsFrom(cna_uuid, order)),
                    !.parsed_files = IF cwes_found # {} THEN @ + 1 ELSE @],
                outcome |-> "kept"] : order \in Perms(cwes_found)}

\* what the loop body does once the file name matched; `check` is the date check
ParseCnaCwe(d0, doc, check) ==
    LET d == [d0 EXCEPT !.total_files = @ + 1] IN
    IF doc.load # "ok" THEN {Skipped(d)}
    ELSE IF check = "before"
    THEN {[data |-> [d EXCEPT !.date_filtered = @ + 1], outcome |-> "date filtered"]}
    ELSE IF check \in {"ok", "ValueError", "AttributeError"}
    THEN ExtractCnaCwe(d, doc)
    ELSE {Skipped(d)}

\* scripts/build_graph.py: one iteration of the loop over the files of the walk
parse_cve_files(d0, doc) ==
    IF ~IsCveFile(doc.name) THEN {[data |-> d0, outcome |-> "not a CVE file"]}
    ELSE ParseCnaCwe(d0, doc,
             IF DateTruthy(doc.datePublished) THEN date_check_utc(doc.datePublished) ELSE "ok")

\* build_graph.py (repository root): the same loop without the naive-timestamp step
parse_cve_files_root(d0, doc) ==
    IF ~IsCveFile(doc.name) THEN {[data |-> d0, outcome |-> "not a CVE file"]}
    ELSE ParseCnaCwe(d0, doc,
             IF DateTruthy(doc.datePublished) THEN date_check_aware_only(doc.datePublished) ELSE "ok")

-----------------------------------------------------------------------------
(* scripts/build_extended_graphs.py: parse_cve_extended_data               *)

\* lines 156-192: associations, CVSS entries, temporal entry of one kept document
RecordExtended(d, cve_id, cna_uuid, order_cwes, order_vendors, cvss_scores, has_date, t) ==
    LET cna == Get(d.cna_names, cna_uuid, None)
        cwes == Range(order_cwes)
        vendors == Range(order_vendors)
    IN [d EXCEPT
        !.cna_cwe_associations = IncKeys(@, PairsFrom(cna_uuid, order_cwes)),
        !.vendor_cwe_associations = IncKeys(@, Nested(order_vendors, order_cwes)),
        !.cna_vendor_associations = IncKeys(@, PairsFrom(cna_uuid, order_vendors)),
        !.cvss_data = @ \o [i \in DOMAIN cvss_scores |->
                              [cve_id |-> cve_id, cna |-> cna, cwes |-> cwes, vendors |-> vendors,
                               cvss_version |-> cvss_scores[i].version,
                               base_score |-> cvss_scores[i].baseScore,
                               severity |-> cvss_scores[i].baseSeverity]],
        !.temporal_data = IF has_date
                          THEN Append(@, [cve_id |-> cve_id, cna |-> cna, date |-> t,
                                          cwes |-> cwes, vendors |-> vendors])
                          ELSE @,
        !.parsed_files = @ + 1]

parse_cve_extended_data(d0, doc) ==
    IF ~IsCveFile(doc.name) THEN {[data |-> d0, outcome |-> "not a CVE file"]}
    ELSE
    LET d == [d0 EXCEPT !.total_files = @ + 1]
        cve_id == IF doc.cveId = None THEN "Unknown" ELSE doc.cveId
        date_published == doc.datePublished
        check == IF DateTruthy(date_published) THEN date_check_aware_only(date_published) ELSE "ok"
        has_date == DateTruthy(date_published) /\ check = "ok"
        cna_uuid == doc.assignerOrgId
    IN
    IF doc.load # "ok" THEN {[data |-> d, outcome |-> "error"]}
    ELSE IF check = "before" THEN {[data |-> d, outcome |-> "date filtered"]}
    ELSE IF check = "TypeError" THEN {[data |-> d, outcome |-> "error"]}
    ELSE IF ~Truthy(cna_uuid) THEN {[data |-> d, outcome |-> "no authority"]}
    ELSE LET named == [d EXCEPT !.cna_names = StoreName(@, cna_uuid, doc.assignerShortName)]
             scan == ScanWeaknesses(doc)
             vend == ScanVendors(doc.affected)
         IN
         IF scan.exc # None \/ vend.exc # None THEN {[data |-> named, outcome |-> "error"]}
         ELSE {[data |-> RecordExtended(named, cve_id, cna_uuid, oc, ov, ScanMetrics(doc.metrics),
                                         has_date, IF has_date THEN fromisoformat(date_published).t ELSE 0),
                outcome |-> "kept"] : oc \in Perms(Range(scan.adds)), ov \in Perms(Range(vend.adds))}

-----------------------------------------------------------------------------
(* scripts/build_alternative_graphs.py: parse_cve_files_extended           *)

\* data[name][k].add(x) for each x of a list, the key being created by the first add
AddAll(d, k, adds) == IF adds = <<>> THEN d ELSE Put(d, k, Get(d, k, {}) \cup Range(adds))

\* data[name][k].add(x) for each k of a list
RECURSIVE AddToEach(_, _, _)
AddToEach(d, keys, x) ==
    IF keys = <<>> THEN d ELSE AddToEach(AddTo(d, Head(keys), x), Tail(keys), x)

parse_cve_files_extended(d0, doc) ==
    IF ~IsCveFile(doc.name) THEN {[data |-> d0, outcome |-> "not a CVE file"]}
    ELSE
    LET d == [d0 EXCEPT !.total_files = @ + 1]
        cve_id == doc.cveId
        date_published == doc.datePublished
        check == IF DateTruthy(date_published) THEN date_check_aware_only(date_published) ELSE "ok"
    IN
    IF doc.load # "ok" THEN {[data |-> d, outcome |-> "error"]}
    ELSE IF ~Truthy(cve_id) THEN {[data |-> d, outcome |-> "no identifier"]}
    ELSE IF check = "before" THEN {[data |-> d, outcome |-> "date filtered"]}
    ELSE IF check = "TypeError" THEN {[data |-> d, outcome |-> "error"]}
    ELSE LET cna == Or(doc.assignerShortName, doc.assignerOrgId)
             s1 == [d EXCEPT
                       !.cve_to_cna = IF Truthy(cna) THEN Put(@, cve_id, cna) ELSE @,
                       !.cve_metadata = Put(@, cve_id, [published |-> date_published])]
             scan == ScanWeaknesses(doc)
             s2 == [s1 EXCEPT !.cve_to_cwes = AddAll(@, cve_id, scan.adds)]
             aff == ScanAffected(doc.affected)
             s3 == [s2 EXCEPT !.cve_to_vendors = AddAll(@, cve_id, aff.vendors),
                              !.cve_to_products = AddAll(@, cve_id, aff.products)]
             s4 == [s3 EXCEPT !.cve_to_references = AddAll(@, cve_id, ScanReferences(doc.references))]
         IN IF scan.exc # None THEN {[data |-> s2, outcome |-> "error"]}
            ELSE IF aff.exc # None THEN {[data |-> s3, outcome |-> "error"]}
            ELSE {[data |-> [s4 EXCEPT !.parsed_files = @ + 1], outcome |-> "kept"]}

-----------------------------------------------------------------------------
(* build_compact_graphs.py: parse_cve_files_compact                        *)

parse_cve_files_compact(d0, doc) ==
    IF ~IsCveFile(doc.name) THEN {[data |-> d0, outcome |-> "not a CVE file"]}
    ELSE
    LET d == [d0 EXCEPT !.total_files = @ + 1]
        cve_id == doc.cveId
        date_published == doc.datePublished
        \* the bare `except: pass` swallows every exception of the date check
        check == IF DateTruthy(date_published) THEN date_check_aware_only(date_published) ELSE "ok"
    IN
    IF doc.load # "ok" THEN {[data |-> d, outcome |-> "error"]}
    ELSE IF ~Truthy(cve_id) THEN {[data |-> d, outcome |-> "no identifier"]}
    ELSE IF check = "before" THEN {[data |-> d, outcome |-> "date filtered"]}
    ELSE LET cna == Or(doc.assignerShortName, doc.assignerOrgId)
             s1 == IF Truthy(cna)
                   THEN [d EXCEPT !.cve_to_cna = Put(@, cve_id, cna),
                                  !.cna_to_cves = AddTo(@, cna, cve_id)]
                   ELSE d
             scan == ScanWeaknesses(doc)
             s2 == [s1 EXCEPT !.cve_to_cwes = AddAll(@, cve_id, scan.adds),
                              !.cwe_to_cves = AddToEach(@, scan.adds, cve_id)]
         IN {[data |-> s2, outcome |-> IF scan.exc # None THEN "error" ELSE "kept"]}

-----------------------------------------------------------------------------
(* scripts/build_analytical_graphs.py: parse_cve_analytical_data           *)

\* lines 111-121: the first metric entry that carries a CVSS v3 block
RECURSIVE FirstV3(_)
FirstV3(metrics) ==
    IF metrics = <<>> THEN [cvss_score |-> NoScore, cvss_severity |-> None]
    ELSE LET metric == Head(metrics) IN
         IF "cvssV3_1" \in DOMAIN metric
         THEN [cvss_score |-> Field(metric.cvssV3_1, "baseScore", NoScore),
               cvss_severity |-> Field(metric.cvssV3_1, "baseSeverity", None)]
         ELSE IF "cvssV3_0" \in DOMAIN metric
         THEN [cvss_score |-> Field(metric.cvssV3_0, "baseScore", NoScore),
               cvss_severity |-> Field(metric.cvssV3_0, "baseSeverity", None)]
         ELSE FirstV3(Tail(metrics))

\* cwe_cvss_scores[cwe].append(score) for each cwe of a list
RECURSIVE AppendToEach(_, _, _)
AppendToEach(d, keys, x) ==
    IF keys = <<>> THEN d
    ELSE AppendToEach(Put(d, Head(keys), Append(Get(d, Head(keys), <<>>), x)), Tail(keys), x)

\* pub_date.strftime("%Y-%m"), months of 30 days
month_key(t) == t \div 30

parse_cve_analytical_data(d0, doc) ==
    IF ~IsCveFile(doc.name) THEN {[data |-> d0, outcome |-> "not a CVE file"]}
    ELSE
    LET d == [d0 EXCEPT !.total_files = @ + 1]
        cve_id == IF doc.cveId = None THEN "Unknown" ELSE doc.cveId
        date_published == doc.datePublished
        check == date_check_aware_only(date_published)
    IN
    IF doc.load # "ok" THEN {[data |-> d, outcome |-> "error"]}
    ELSE IF ~DateTruthy(date_published) THEN {[data |-> d, outcome |-> "no date"]}
    ELSE IF check \in {"ValueError", "AttributeError"} THEN {[data |-> d, outcome |-> "bad date"]}
    ELSE IF check = "before" THEN {[data |-> d, outcome |-> "date filtered"]}
    ELSE IF check = "TypeError" THEN {[data |-> d, outcome |-> "error"]}
    ELSE LET t == fromisoformat(date_published).t
             counted == [d EXCEPT !.parsed_files = @ + 1]
             cna == Or(doc.assignerShortName, Or(doc.assignerOrgId, "Unknown"))
             cna_scan == ScanDescriptions(doc.problemTypes)
             adp_scan == ScanDescriptions(doc.adp.problemTypes)
             cvss == FirstV3(doc.metrics)
             cwes_found == Range(cna_scan.adds \o adp_scan.adds)
         IN IF cna_scan.exc # None \/ ~doc.adp.is_list \/ adp_scan.exc # None
            THEN {[data |-> counted, outcome |-> "error"]}
            ELSE {[data |-> [counted EXCEPT
                       !.timeline_data =
                           IF cvss.cvss_score # NoScore
                           THEN Append(@, [cve_id |-> cve_id, date |-> t,
                                           cvss_score |-> cvss.cvss_score,
                                           cvss_severity |-> Or(cvss.cvss_severity, "UNKNOWN"),
                                           cna |-> cna, cwes |-> cwes_found])
                           ELSE @,
                       !.cwe_monthly_counts = IncKeys(@, PairsTo(order, month_key(t))),
                       !.cwe_cvss_scores =
                           IF cvss.cvss_score # NoScore
                           THEN AppendToEach(@, order, cvss.cvss_score) ELSE @],
                   outcome |-> "kept"] : order \in Perms(cwes_found)}

-----------------------------------------------------------------------------
(* networkx graphs and node-link documents                                 *)

\* nx.Graph() / nx.DiGraph(): node -> attributes, edge -> attributes
Graph(directed) == [directed |-> directed, node |-> <<>>, adj |-> <<>>]

\* an undirected edge is its pair of endpoints, a directed one the ordered pair
EdgeKey(G, u, v) == IF G.directed THEN <<u, v>> ELSE {u, v}

Endpoints(G, e) == IF G.directed THEN {e[1], e[2]} ELSE e

\* G.add_node(n, **attrs): new attributes are merged over the old ones
add_node(G, n, attrs) ==
    [G EXCEPT !.node = (n :> (attrs @@ (IF n \in DOMAIN @ THEN @[n] ELSE <<>>))) @@ @]

\* an add_edge that does not create the endpoints it is missing
add_edge_only(G, u, v, attrs) ==
    LET e == EdgeKey(G, u, v) IN
    [G EXCEPT !.adj = (e :> (attrs @@ (IF e \in DOMAIN @ THEN @[e] ELSE <<>>))) @@ @]

\* G.add_edge(u, v, **attrs): creates u and v when absent, merges the attributes
add_edge(G, u, v, attrs) ==
    LET withNodes == add_node(add_node(G, u, <<>>), v, <<>>) IN
    add_edge_only(withNodes, u, v, attrs)

\* for n in nodes: G.add_node(n, **attrs)
add_nodes(G, nodes, attrs) ==
    [G EXCEPT !.node = [n \in nodes |-> attrs @@ (IF n \in DOMAIN @ THEN @[n] ELSE <<>>)] @@ @]

number_of_nodes(G) == Cardinality(DOMAIN G.node)

\* an edge count that counts an edge once from each end, as len(G.adj) sums do
number_of_edge_ends(G) == 2 * Cardinality(DOMAIN G.adj)

number_of_edges(G) == Cardinality(DOMAIN G.adj)

\* json_graph.node_link_data(G) plus the metadata block
node_link_data(G, metadata) ==
    [nodes |-> {[id |-> n, attrs |-> G.node[n]] : n \in DOMAIN G.node},
     links |-> {[source |-> CHOOSE u \in Endpoints(G, e) : TRUE,
                 target |-> CHOOSE v \in Endpoints(G, e) :
                                Cardinality(Endpoints(G, e)) = 1 \/ v # (CHOOSE u \in Endpoints(G, e) : TRUE),
                 attrs |-> G.adj[e]] : e \in DOMAIN G.adj},
     metadata |-> metadata]

-----------------------------------------------------------------------------
(* scripts/build_graph.py: build_graph, export_graph                       *)

\* for (cna_uuid, cwe), count in associations.items(): G.add_edge(name, cwe, weight=count)
RECURSIVE AddAssociationEdges(_, _, _)
AddAssociationEdges(G, items, cna_names) ==
    IF items = <<>> THEN G
    ELSE LET cna_uuid == Head(items)[1][1]
             cwe == Head(items)[1][2]
             cna_name == Get(cna_names, cna_uuid, cna_uuid)
         IN AddAssociationEdges(add_edge(G, cna_name, cwe, [weight |-> Head(items)[2]]),
                                Tail(items), cna_names)

build_graph(associations, cna_names) ==
    LET cnas == {k[1] : k \in Keys(associations)}
        cwes == {k[2] : k \in Keys(associations)}
        G1 == add_nodes(Graph(FALSE), {Get(cna_names, u, u) : u \in cnas}, [type |-> "cna"])
        G2 == add_nodes(G1, cwes, [type |-> "cwe"])
    IN AddAssociationEdges(G2, associations, cna_names)

\* export_graph of scripts/build_graph.py: the document written to cna_to_cwe_map.json
export_cna_to_cwe_map(graph, cve_count) ==
    node_link_data(graph,
        [node_count |-> number_of_nodes(graph),
         edge_count |-> number_of_edges(graph),
         cna_count |-> Cardinality({n \in DOMAIN graph.node : graph.node[n].type = "cna"}),
         cwe_count |-> Cardinality({n \in DOMAIN graph.node : graph.node[n].type = "cwe"}),
         cve_count |-> cve_count])

\* export_graph of build_graph.py: the same document without a cve_count
export_cna_to_cwe_map_root(graph) ==
    node_link_data(graph,
        [node_count |-> number_of_nodes(graph),
         edge_count |-> number_of_edges(graph),
         cna_count |-> Cardinality({n \in DOMAIN graph.node : graph.node[n].type = "cna"}),
         cwe_count |-> Cardinality({n \in DOMAIN graph.node : graph.node[n].type = "cwe"})])

-----------------------------------------------------------------------------
(* scripts/build_extended_graphs.py: the builders                          *)

\* for (a, b), count in d.items(): counts[key[pos]] += count
RECURSIVE KeyTotals(_, _)
KeyTotals(items, pos) ==
    IF items = <<>> THEN <<>>
    ELSE LET last == items[Len(items)] IN
         IncBy(KeyTotals(SubSeq(items, 1, Len(items) - 1), pos), last[1][pos], last[2])

\* {c[0] for c in sorted(counts.items(), key=lambda x: x[1], reverse=True)[:n]}
TopKeys(counts, n) == Range([i \in DOMAIN Take(SortedDesc(counts), n) |-> SortedDesc(counts)[i][1]])

\* the nodes and links written for a bipartite graph (layout coordinates left out)
bipartite_document(G, metadata) ==
    [nodes |-> {[id |-> n,
                 attrs |-> [label |-> n, bipartite |-> G.node[n].bipartite,
                            node_type |-> G.node[n].node_type]] : n \in DOMAIN G.node},
     links |-> node_link_data(G, metadata).links,
     metadata |-> metadata]

\* lines 234-238: the loop that adds a vendor, a CWE and their edge
RECURSIVE VendorProfileEdges(_, _, _, _)
VendorProfileEdges(G, items, top_vendor_names, vendor_counts) ==
    IF items = <<>> THEN G
    ELSE LET vendor == Head(items)[1][1]
             cwe == Head(items)[1][2]
             G1 == add_node(G, vendor, [bipartite |-> 0, node_type |-> "vendor",
                                        cve_count |-> Get(vendor_counts, vendor, 0)])
             G2 == add_node(G1, cwe, [bipartite |-> 1, node_type |-> "cwe"])
         IN VendorProfileEdges(
                IF vendor \in top_vendor_names
                THEN add_edge(G2, vendor, cwe, [weight |-> Head(items)[2]]) ELSE G,
                Tail(items), top_vendor_names, vendor_counts)

build_vendor_vulnerability_profiles(d, top_n) ==
    LET vendor_cwe == d.vendor_cwe_associations
        vendor_counts == KeyTotals(vendor_cwe, 1)
        G == VendorProfileEdges(Graph(FALSE), vendor_cwe, TopKeys(vendor_counts, top_n), vendor_counts)
        vendors == {n \in DOMAIN G.node : G.node[n].bipartite = 0}
        cwes == {n \in DOMAIN G.node : G.node[n].bipartite = 1}
    IN [graph |-> G,
        document |-> bipartite_document(G,
            [vendor_count |-> Cardinality(vendors), cwe_count |-> Cardinality(cwes),
             edge_count |-> number_of_edges(G)])]

\* lines 304-309: the loop that adds an authority, a vendor and their edge
RECURSIVE CnaVendorEdges(_, _, _, _, _)
CnaVendorEdges(G, items, top_cna_uuids, top_vendor_names, cna_names) ==
    IF items = <<>> THEN G
    ELSE LET cna_uuid == Head(items)[1][1]
             vendor == Head(items)[1][2]
             cna_name == Get(cna_names, cna_uuid, cna_uuid)
             G1 == add_node(G, cna_name, [bipartite |-> 0, node_type |-> "cna"])
             G2 == add_node(G1, vendor, [bipartite |-> 1, node_type |-> "vendor"])
         IN CnaVendorEdges(
                IF cna_uuid \in top_cna_uuids /\ vendor \in top_vendor_names
                THEN add_edge(G2, cna_name, vendor, [weight |-> Head(items)[2]]) ELSE G,
                Tail(items), top_cna_uuids, top_vendor_names, cna_names)

build_cna_vendor_map(d, top_cnas, top_vendors) ==
    LET cna_vendor == d.cna_vendor_associations
        G == CnaVendorEdges(Graph(FALSE), cna_vendor,
                            TopKeys(KeyTotals(cna_vendor, 1), top_cnas),
                            TopKeys(KeyTotals(cna_vendor, 2), top_vendors), d.cna_names)
        cnas == {n \in DOMAIN G.node : G.node[n].bipartite = 0}
        vendors == {n \in DOMAIN G.node : G.node[n].bipartite = 1}
    IN [graph |-> G,
        document |-> bipartite_document(G,
            [cna_count |-> Cardinality(cnas), vendor_count |-> Cardinality(vendors),
             edge_count |-> number_of_edges(G)])]

\* node_map[name] = idx for the names of a list, idx counting on from `first`
RECURSIVE NodeMap(_, _, _)
NodeMap(node_map, names, first) ==
    IF names = <<>> THEN node_map
    ELSE NodeMap(Put(node_map, Head(names), first), Tail(names), first + 1)

\* lines 391-399: one link per association between a top authority and a top CWE
RECURSIVE SankeyLinks(_, _, _, _, _)
SankeyLinks(items, top_cna_uuids, top_cwe_ids, cna_names, node_map) ==
    IF items = <<>> THEN <<>>
    ELSE LET cna_uuid == Head(items)[1][1]
             cwe == Head(items)[1][2]
         IN (IF cna_uuid \in top_cna_uuids /\ cwe \in top_cwe_ids
             THEN <<[source |-> Get(node_map, Get(cna_names, cna_uuid, cna_uuid), None),
                     target |-> Get(node_map, cwe, None),
                     value |-> Head(items)[2]]>>
             ELSE <<>>)
            \o SankeyLinks(Tail(items), top_cna_uuids, top_cwe_ids, cna_names, node_map)

RECURSIVE SumOf(_, _)
SumOf(seq, f) == IF seq = <<>> THEN 0 ELSE Head(seq)[f] + SumOf(Tail(seq), f)

\* the Sankey document for one iteration order of the two sets of top keys
sankey_data(d, order_cnas, order_cwes) ==
    LET cna_cwe == d.cna_cwe_associations
        names == [i \in DOMAIN order_cnas |-> Get(d.cna_names, order_cnas[i], order_cnas[i])]
        nodes == [i \in DOMAIN names |-> [name |-> names[i], type |-> "cna"]]
                 \o [i \in DOMAIN order_cwes |-> [name |-> order_cwes[i], type |-> "cwe"]]
        node_map == NodeMap(NodeMap(<<>>, names, 0), order_cwes, Len(names))
        links == SankeyLinks(cna_cwe, Range(order_cnas), Range(order_cwes), d.cna_names, node_map)
    IN [nodes |-> nodes, links |-> links,
        metadata |-> [cna_count |-> Len(order_cnas), cwe_count |-> Len(order_cwes),
                      total_flow |-> SumOf(links, "value")]]

\* the documents build_sankey_diagram_data may write
build_sankey_diagram_data(d, top_cnas, top_cwes) ==
    {sankey_data(d, oa, ow) :
        oa \in Perms(TopKeys(KeyTotals(d.cna_cwe_associations, 1), top_cnas)),
        ow \in Perms(TopKeys(KeyTotals(d.cna_cwe_associations, 2), top_cwes))}

\* max(...) of a non-empty collection of counts
Max(S) == CHOOSE x \in S : \A y \in S : y <= x

build_heatmap_matrix(d, top_cnas, top_cwes) ==
    LET cna_cwe == d.cna_cwe_associations
        cnas == Take(SortedDesc(KeyTotals(cna_cwe, 1)), top_cnas)
        cwes == Take(SortedDesc(KeyTotals(cna_cwe, 2)), top_cwes)
        matrix == [i \in DOMAIN cnas |->
                      [j \in DOMAIN cwes |-> Get(cna_cwe, <<cnas[i][1], cwes[j][1]>>, 0)]]
    IN [cnas |-> [i \in DOMAIN cnas |-> Get(d.cna_names, cnas[i][1], cnas[i][1])],
        cwes |-> [j \in DOMAIN cwes |-> cwes[j][1]],
        matrix |-> matrix,
        metadata |-> [cna_count |-> Len(cnas), cwe_count |-> Len(cwes),
                      max_value |-> IF matrix = <<>> THEN 0
                                    ELSE Max({matrix[i][j] : i \in DOMAIN cnas, j \in DOMAIN cwes})]]

\* lines 491-502: the score range of one item; scores are held in tenths
score_range(score) ==
    IF score = 0 THEN "None (0.0)"
    ELSE IF score < 40 THEN "Low (0.1-3.9)"
    ELSE IF score < 70 THEN "Medium (4.0-6.9)"
    ELSE IF score < 90 THEN "High (7.0-8.9)"
    ELSE "Critical (9.0-10.0)"

\* `score < 4.0` raises TypeError when the stored base score is None
build_cvss_severity_distribution(d) ==
    LET cvss_data == d.cvss_data
        severity(i) == Or(cvss_data[i].severity, "Unknown")
        severity_counts == IncKeys(<<>>, [i \in DOMAIN cvss_data |-> severity(i)])
        severity_by_cna == IncKeys(<<>>, [i \in DOMAIN cvss_data |-> <<cvss_data[i].cna, severity(i)>>])
        cnas == IncKeys(<<>>, [i \in DOMAIN cvss_data |-> cvss_data[i].cna])
        critical == [i \in DOMAIN cnas |->
                        <<cnas[i][1], Get(severity_by_cna, <<cnas[i][1], "CRITICAL">>, 0)>>]
    IN IF \E i \in DOMAIN cvss_data : cvss_data[i].base_score = NoScore
       THEN [exc |-> "TypeError"]
       ELSE [exc |-> None,
             document |->
                [severity_counts |-> severity_counts,
                 score_ranges |-> IncKeys(<<>>, [i \in DOMAIN cvss_data |->
                                                    score_range(cvss_data[i].base_score)]),
                 top_critical_cnas |-> Take(SortedDesc(critical), TopN),
                 total_cves |-> Len(cvss_data)]]

build_temporal_trends(d) ==
    LET temporal_data == d.temporal_data
        year_month(i) == month_key(temporal_data[i].date)
        monthly_counts == IncKeys(<<>>, [i \in DOMAIN temporal_data |-> year_month(i)])
        monthly_by_cna == IncKeys(<<>>, [i \in DOMAIN temporal_data |->
                                            <<temporal_data[i].cna, year_month(i)>>])
        sorted_months == Keys(monthly_counts)
        cna_totals == IncKeys(<<>>, [i \in DOMAIN temporal_data |-> temporal_data[i].cna])
        top == Take(SortedDesc(cna_totals), TopN)
        top_cnas == [i \in DOMAIN top |-> top[i][1]]
    IN [monthly_totals |-> [m \in sorted_months |-> Get(monthly_counts, m, 0)],
        top_cnas |-> top_cnas,
        cna_timelines |-> [cna \in Range(top_cnas) |->
                              [m \in sorted_months |-> Get(monthly_by_cna, <<cna, m>>, 0)]],
        metadata |-> [total_cves |-> Len(temporal_data)]]

-----------------------------------------------------------------------------
(* scripts/build_alternative_graphs.py: the builders                       *)

MIN_SHARED_REFS == 2
TEMPORAL_WINDOW_DAYS == 30

\* for (u, v), weight in edge_weights.items(): G.add_edge(u, v, weight=weight)
RECURSIVE AddWeightedEdges(_, _)
AddWeightedEdges(G, items) ==
    IF items = <<>> THEN G
    ELSE AddWeightedEdges(add_edge(G, Head(items)[1][1], Head(items)[1][2],
                                   [weight |-> Head(items)[2]]), Tail(items))

build_cwe_cooccurrence_graph(d) ==
    LET cve_to_cwes == d.cve_to_cwes
        edge_weights == IncKeys(<<>>, Flatten([i \in DOMAIN cve_to_cwes |->
                                                  combinations(sorted(cve_to_cwes[i][2]))]))
        all_cwes == UNION {cve_to_cwes[i][2] : i \in DOMAIN cve_to_cwes}
    IN AddWeightedEdges(add_nodes(Graph(FALSE), all_cwes, [type |-> "cwe"]), edge_weights)

\* f"{vendor}::{product}"
product_key(vp) == vp[1] \o "::" \o vp[2]

\* prod.split("::", 1)
RECURSIVE split_product(_, _)
split_product(prod, seen) ==
    IF Len(prod) < 2 THEN <<seen \o prod, "">>
    ELSE IF SubSeq(prod, 1, 2) = "::" THEN <<seen, SubSeq(prod, 3, Len(prod))>>
    ELSE split_product(SubSeq(prod, 2, Len(prod)), seen \o SubSeq(prod, 1, 1))

\* G.add_node(prod, type='product', label=product, vendor=vendor) for each product key
RECURSIVE add_product_nodes(_, _)
add_product_nodes(G, products) ==
    IF products = <<>> THEN G
    ELSE add_product_nodes(
             add_node(G, Head(products),
                      [type |-> "product", label |-> split_product(Head(products), "")[2],
                       vendor |-> split_product(Head(products), "")[1]]),
             Tail(products))

\* the keys (a, b) for a in A and b in B
Cross(A, B) == Nested(AnyOrder(A), AnyOrder(B))

build_product_cwe_graph(d) ==
    LET cve_to_products == d.cve_to_products
        product_cwe_weights ==
            IncKeys(<<>>, Flatten([i \in DOMAIN cve_to_products |->
                Cross({product_key(vp) : vp \in cve_to_products[i][2]},
                      Get(d.cve_to_cwes, cve_to_products[i][1], {}))]))
        products == {k[1] : k \in Keys(product_cwe_weights)}
        cwes == {k[2] : k \in Keys(product_cwe_weights)}
        G1 == add_product_nodes(Graph(FALSE), AnyOrder(products))
    IN AddWeightedEdges(add_nodes(G1, cwes, [type |-> "cwe"]), product_cwe_weights)

build_vendor_cwe_graph(d) ==
    LET cve_to_vendors == d.cve_to_vendors
        vendor_cwe_weights ==
            IncKeys(<<>>, Flatten([i \in DOMAIN cve_to_vendors |->
                Cross(cve_to_vendors[i][2], Get(d.cve_to_cwes, cve_to_vendors[i][1], {}))]))
        vendors == {k[1] : k \in Keys(vendor_cwe_weights)}
        cwes == {k[2] : k \in Keys(vendor_cwe_weights)}
        G1 == add_nodes(Graph(FALSE), vendors, [type |-> "vendor"])
    IN AddWeightedEdges(add_nodes(G1, cwes, [type |-> "cwe"]), vendor_cwe_weights)

build_cna_vendor_graph(d) ==
    LET cve_to_cna == d.cve_to_cna
        cna_vendor_weights ==
            IncKeys(<<>>, Flatten([i \in DOMAIN cve_to_cna |->
                PairsFrom(cve_to_cna[i][2], AnyOrder(Get(d.cve_to_vendors, cve_to_cna[i][1], {})))]))
        cnas == {k[1] : k \in Keys(cna_vendor_weights)}
        vendors == {k[2] : k \in Keys(cna_vendor_weights)}
        G1 == add_nodes(Graph(FALSE), cnas, [type |-> "cna"])
    IN AddWeightedEdges(add_nodes(G1, vendors, [type |-> "vendor"]), cna_vendor_weights)

build_product_dependency_graph(d) ==
    LET cve_to_products == d.cve_to_products
        keys(i) == LET c == combinations(sorted_pairs(cve_to_products[i][2]))
                   IN [k \in DOMAIN c |-> <<product_key(c[k][1]), product_key(c[k][2])>>]
        edge_weights == IncKeys(<<>>, Flatten([i \in DOMAIN cve_to_products |-> keys(i)]))
        all_products == UNION {{product_key(vp) : vp \in cve_to_products[i][2]} :
                                  i \in DOMAIN cve_to_products}
    IN AddWeightedEdges(add_product_nodes(Graph(FALSE), AnyOrder(all_products)), edge_weights)

\* lines 267-280: product_cves, the products of CVE i being iterated in orders[i]
RECURSIVE ProductCves(_, _, _)
ProductCves(d, orders, n) ==
    IF n = 0 THEN <<>>
    ELSE LET cve_id == d.cve_to_products[n][1]
             pub_date_str == Get(d.cve_metadata, cve_id, [published |-> NoDate]).published
             acc == ProductCves(d, orders, n - 1)
         IN IF ~DateTruthy(pub_date_str) \/ fromisoformat(pub_date_str).exc # None THEN acc
            ELSE AppendToEach(acc, [k \in DOMAIN orders[n] |-> product_key(orders[n][k])],
                              <<cve_id, fromisoformat(pub_date_str).t>>)

\* cve_list.sort(key=lambda x: x[1]): stable, earliest first
RECURSIVE InsertAsc(_, _)
InsertAsc(items, item) ==
    IF items = <<>> THEN <<item>>
    ELSE IF Head(items)[2] <= item[2] THEN <<Head(items)>> \o InsertAsc(Tail(items), item)
    ELSE <<item>> \o items

\* the list left in the order the records were stored
Unsorted(items) == items

RECURSIVE SortedAsc(_)
SortedAsc(items) ==
    IF items = <<>> THEN <<>>
    ELSE InsertAsc(SortedAsc(SubSeq(items, 1, Len(items) - 1)), items[Len(items)])

\* the pairs (i, j) the two loops reach before the inner `break`
ChainPairs(cve_list, days_window) ==
    SelectSeq(combinations([i \in DOMAIN cve_list |-> i]),
              LAMBDA ij : \A k \in (ij[1] + 1)..ij[2] :
                              cve_list[k][2] - cve_list[ij[1]][2] <= days_window)

\* G.add_edge(cve1, cve2, product=product_key, days_apart=...) for the pairs of one product
RECURSIVE ChainEdges(_, _, _, _)
ChainEdges(G, product, cve_list, pairs) ==
    IF pairs = <<>> THEN G
    ELSE LET cve1 == cve_list[Head(pairs)[1]]
             cve2 == cve_list[Head(pairs)[2]]
         IN ChainEdges(add_edge(G, cve1[1], cve2[1],
                                [product |-> product, days_apart |-> cve2[2] - cve1[2]]),
                       product, cve_list, Tail(pairs))

RECURSIVE TemporalEdges(_, _, _)
TemporalEdges(G, product_cves, days_window) ==
    IF product_cves = <<>> THEN G
    ELSE LET cve_list == SortedAsc(Head(product_cves)[2])
         IN TemporalEdges(ChainEdges(G, Head(product_cves)[1], cve_list,
                                     ChainPairs(cve_list, days_window)),
                          Tail(product_cves), days_window)

\* lines 304-311 and 349-356: type, label and authority of every CVE node
cve_node_attrs(G, d) ==
    [G EXCEPT !.node = [n \in DOMAIN @ |->
        (IF Truthy(Get(d.cve_to_cna, n, None)) THEN [cna |-> Get(d.cve_to_cna, n, None)] ELSE <<>>)
        @@ [type |-> "cve", label |-> n] @@ @[n]]]

\* the orders in which the product set of each CVE may be iterated
ProductOrders(d) ==
    {f \in [DOMAIN d.cve_to_products ->
                UNION {Perms(d.cve_to_products[i][2]) : i \in DOMAIN d.cve_to_products}] :
        \A i \in DOMAIN d.cve_to_products : f[i] \in Perms(d.cve_to_products[i][2])}

\* the graphs build_cve_temporal_graph may return
build_cve_temporal_graph(d, days_window) ==
    {cve_node_attrs(TemporalEdges(Graph(FALSE),
                                  ProductCves(d, orders, Len(d.cve_to_products)), days_window), d) :
        orders \in ProductOrders(d)}

\* an edge for every pair that shares a URL, whatever the threshold
RECURSIVE SharedEdgesAny(_, _, _)
SharedEdgesAny(G, cve_pairs, min_shared) ==
    IF cve_pairs = <<>> THEN G
    ELSE LET pair == Head(cve_pairs)[1]
             shared_urls == Head(cve_pairs)[2]
         IN SharedEdgesAny(add_edge(G, pair[1], pair[2],
                                    [weight |-> Cardinality(shared_urls),
                                     shared_refs |-> Cardinality(shared_urls)]),
                           Tail(cve_pairs), min_shared)

\* lines 340-346: an edge for every pair that shares at least min_shared URLs
RECURSIVE SharedEdges(_, _, _)
SharedEdges(G, cve_pairs, min_shared) ==
    IF cve_pairs = <<>> THEN G
    ELSE LET pair == Head(cve_pairs)[1]
             shared_urls == Head(cve_pairs)[2]
         IN SharedEdges(IF Cardinality(shared_urls) >= min_shared
                        THEN add_edge(G, pair[1], pair[2],
                                      [weight |-> Cardinality(shared_urls),
                                       shared_refs |-> Cardinality(shared_urls)])
                        ELSE G,
                        Tail(cve_pairs), min_shared)

build_shared_reference_graph(d, min_shared) ==
    LET refs == d.cve_to_references
        url_to_cves(url) == {refs[i][1] : i \in {j \in DOMAIN refs : url \in refs[j][2]}}
        urls == UNION {refs[i][2] : i \in DOMAIN refs}
        shared_urls(pair) == {url \in urls : {pair[1], pair[2]} \subseteq url_to_cves(url)}
        pairs == AnyOrder({pair \in Keys(refs) \X Keys(refs) :
                              str_lt(pair[1], pair[2]) /\ shared_urls(pair) # {}})
        cve_pairs == [k \in DOMAIN pairs |-> <<pairs[k], shared_urls(pairs[k])>>]
    IN cve_node_attrs(SharedEdges(Graph(FALSE), cve_pairs, min_shared), d)

\* the graph types main() passes to export_graph
graph_type(key) ==
    CASE key = "cwe_cooccurrence" -> "CWE Co-occurrence"
      [] key = "product_cwe" -> "Product-CWE"
      [] key = "vendor_cwe" -> "Vendor-CWE"
      [] key = "cve_temporal" -> "CVE Temporal Chaining"
      [] key = "cve_references" -> "Shared References"
      [] key = "product_dependency" -> "Product Dependency"
      [] key = "cna_vendor" -> "CNA-Vendor"

\* export_graph of build_alternative_graphs.py
export_graph(graph, type) ==
    node_link_data(graph, [type |-> type, node_count |-> number_of_nodes(graph),
                           edge_count |-> number_of_edges(graph)])

-----------------------------------------------------------------------------
(* build_compact_graphs.py: the builders                                   *)

EGO_CNA_NAME == "mitre"
EGO_RADIUS == 1

\* the spokes kept per star: `[:20]`
STAR_SPOKES == 20

\* {k: len(v) for k, v in d.items()}
Sizes(d) == [i \in DOMAIN d |-> <<d[i][1], Cardinality(d[i][2])>>]

\* G.add_node(k, **attrs(k, count)) for k, count in items
RECURSIVE add_counted_nodes(_, _, _)
add_counted_nodes(G, items, attrs) ==
    IF items = <<>> THEN G
    ELSE add_counted_nodes(
             add_node(G, Head(items)[1], [cve_count |-> Head(items)[2]] @@ attrs),
             Tail(items), attrs)

\* lines 127-132: a CWE node on its first edge, then the edge
RECURSIVE BipartiteEdges(_, _, _)
BipartiteEdges(G, items, cwes_added) ==
    IF items = <<>> THEN G
    ELSE LET cna == Head(items)[1][1]
             cwe == Head(items)[1][2]
             G1 == IF cwe \in cwes_added THEN G
                   ELSE add_node(G, cwe, [bipartite |-> 1, type |-> "cwe"])
         IN BipartiteEdges(add_edge(G1, cna, cwe, [weight |-> Head(items)[2]]),
                           Tail(items), cwes_added \cup {cwe})

build_top_cna_cwe_bipartite(d, top_n) ==
    LET top_cnas == Take(SortedDesc(Sizes(d.cna_to_cves)), top_n)
        cwes_of(cna) == Flatten([k \in DOMAIN AnyOrder(Get(d.cna_to_cves, cna, {})) |->
                            PairsFrom(cna, AnyOrder(Get(d.cve_to_cwes,
                                AnyOrder(Get(d.cna_to_cves, cna, {}))[k], {})))])
        cwe_counts == IncKeys(<<>>, Flatten([i \in DOMAIN top_cnas |-> cwes_of(top_cnas[i][1])]))
    IN BipartiteEdges(add_counted_nodes(Graph(FALSE), top_cnas, [bipartite |-> 0, type |-> "cna"]),
                      cwe_counts, {})

\* int(text); -1 stands for ValueError
RECURSIVE parse_digits(_, _)
parse_digits(text, acc) ==
    IF text = "" THEN acc
    ELSE IF IndexIn(SubSeq(text, 1, 1), Digits) = 0 THEN -1
    ELSE parse_digits(SubSeq(text, 2, Len(text)),
                      acc * 10 + IndexIn(SubSeq(text, 1, 1), Digits) - 1)

\* text.split('-'): the part before the first '-' and the rest
RECURSIVE split_dash(_, _)
split_dash(text, seen) ==
    IF text = "" THEN <<seen, "">>
    ELSE IF SubSeq(text, 1, 1) = "-" THEN <<seen, SubSeq(text, 2, Len(text))>>
    ELSE split_dash(SubSeq(text, 2, Len(text)), seen \o SubSeq(text, 1, 1))

\* (int(cwe.split('-')[1]) // 100) * 100, and 0 when that raises
category_of(cwe) ==
    LET field == split_dash(split_dash(cwe, "")[2], "")[1]
        cwe_num == IF field = "" THEN -1 ELSE parse_digits(field, 0)
    IN IF cwe_num < 0 THEN 0 ELSE (cwe_num \div 100) * 100

\* lines 175-184: a category node under the root, its CWEs under it
RECURSIVE CategoryEdges(_, _, _)
CategoryEdges(G, categories, top_cwes) ==
    IF categories = <<>> THEN G
    ELSE LET cat_num == Head(categories)
             cat_name == "CWE-" \o ToString(cat_num) \o "xx"
             cwes == SelectSeq(top_cwes, LAMBDA c : category_of(c[1]) = cat_num)
             total_count == SumValues(cwes)
             G1 == add_node(G, cat_name, [type |-> "category", level |-> 1, count |-> total_count])
             G2 == add_edge(G1, "root", cat_name, [weight |-> total_count])
             leaf(H, k) == add_edge(add_node(H, cwes[k][1],
                                             [type |-> "cwe", level |-> 2, count |-> cwes[k][2]]),
                                    cat_name, cwes[k][1], [weight |-> cwes[k][2]])
             leaves[k \in 0..Len(cwes)] == IF k = 0 THEN G2 ELSE leaf(leaves[k - 1], k)
         IN CategoryEdges(leaves[Len(cwes)], Tail(categories), top_cwes)

\* the keys of a list of pairs in order of first appearance
RECURSIVE FirstSeen(_)
FirstSeen(keys) ==
    IF keys = <<>> THEN <<>>
    ELSE LET before == FirstSeen(SubSeq(keys, 1, Len(keys) - 1)) IN
         IF keys[Len(keys)] \in Range(before) THEN before ELSE Append(before, keys[Len(keys)])

build_cwe_hierarchy_tree(d, top_n) ==
    LET top_cwes == Take(SortedDesc(Sizes(d.cwe_to_cves)), top_n)
        categories == FirstSeen([i \in DOMAIN top_cwes |-> category_of(top_cwes[i][1])])
    IN CategoryEdges(add_node(Graph(TRUE), "root", [type |-> "root", level |-> 0]),
                     categories, top_cwes)

\* lines 205-218: the star of one CWE
RECURSIVE StarEdges(_, _, _)
StarEdges(G, cwe, spokes) ==
    IF spokes = <<>> THEN G
    ELSE LET node_id == cwe \o "_" \o Head(spokes)[1]
             G1 == add_node(G, node_id, [type |-> "cna", label |-> Head(spokes)[1],
                                         role |-> "spoke", parent |-> cwe])
         IN StarEdges(add_edge(G1, cwe, node_id, [weight |-> Head(spokes)[2]]), cwe, Tail(spokes))

RECURSIVE Stars(_, _, _)
Stars(G, top_cwes, d) ==
    IF top_cwes = <<>> THEN G
    ELSE LET cwe == Head(top_cwes)[1]
             cves == AnyOrder(Get(d.cwe_to_cves, cwe, {}))
             cnas == SelectSeq([k \in DOMAIN cves |-> Get(d.cve_to_cna, cves[k], None)], Truthy)
             cna_counts == IncKeys(<<>>, cnas)
             G1 == add_node(G, cwe, [type |-> "cwe", role |-> "center",
                                     cve_count |-> Head(top_cwes)[2]])
         IN Stars(StarEdges(G1, cwe, Take(SortedDesc(cna_counts), STAR_SPOKES)), Tail(top_cwes), d)

build_cwe_star_graphs(d, top_n) ==
    Stars(Graph(FALSE), Take(SortedDesc(Sizes(d.cwe_to_cves)), top_n), d)

\* lines 240-246: weight += 1 on an existing edge, a new edge of weight 1 otherwise
RECURSIVE CountEdges(_, _)
CountEdges(G, pairs) ==
    IF pairs = <<>> THEN G
    ELSE LET e == EdgeKey(G, Head(pairs)[1], Head(pairs)[2]) IN
         CountEdges(IF e \in DOMAIN G.adj
                    THEN [G EXCEPT !.adj[e].weight = @ + 1]
                    ELSE add_edge(G, Head(pairs)[1], Head(pairs)[2], [weight |-> 1]),
                    Tail(pairs))

\* the neighbours of a set of nodes
Neighbours(G, N) == {n \in DOMAIN G.node : \E e \in DOMAIN G.adj, m \in N : Endpoints(G, e) = {n, m}}

\* a neighbourhood that ignores the radius
WithinOne(G, n, radius) == {n} \cup Neighbours(G, {n})

\* the nodes within `radius` steps of n
RECURSIVE Within(_, _, _)
Within(G, n, radius) ==
    IF radius = 0 THEN {n}
    ELSE Within(G, n, radius - 1) \cup Neighbours(G, Within(G, n, radius - 1))

\* nx.ego_graph(G, n, radius): the subgraph induced by the nodes within radius
ego_graph(G, n, radius) ==
    LET nodes == Within(G, n, radius) IN
    [G EXCEPT !.node = [m \in nodes |-> @[m]],
              !.adj = [e \in {x \in DOMAIN @ : Endpoints(G, x) \subseteq nodes} |-> @[e]]]

build_cna_ego_network(d, cna_name, radius) ==
    LET cve_to_cna == d.cve_to_cna
        pairs == Flatten([i \in DOMAIN cve_to_cna |->
                    PairsFrom(cve_to_cna[i][2], AnyOrder(Get(d.cve_to_cwes, cve_to_cna[i][1], {})))])
        counted == CountEdges(Graph(FALSE), pairs)
        full_graph == [counted EXCEPT !.node = [n \in DOMAIN @ |->
                          [type |-> IF startswith(n, "CWE-") THEN "cwe" ELSE "cna", label |-> n]]]
    IN IF cna_name \in DOMAIN full_graph.node
       THEN ego_graph(full_graph, cna_name, radius)
       ELSE Graph(FALSE)

\* the orders in which the weakness set of each CVE may be iterated
CweOrders(d) ==
    {f \in [DOMAIN d.cve_to_cwes ->
                UNION {Perms(d.cve_to_cwes[i][2]) : i \in DOMAIN d.cve_to_cwes}] :
        \A i \in DOMAIN d.cve_to_cwes : f[i] \in Perms(d.cve_to_cwes[i][2])}

\* a circular graph whose edges are not cut to the selected nodes
circular_cwe_layout_uncut(d, top_n, orders) ==
    LET top_cwes == Take(SortedDesc(Sizes(d.cwe_to_cves)), top_n)
        edge_weights == IncKeys(<<>>, Flatten([i \in DOMAIN d.cve_to_cwes |->
                                                  combinations(orders[i])]))
    IN AddWeightedEdges(add_counted_nodes(Graph(FALSE), top_cwes, [type |-> "cwe"]), edge_weights)

\* the circular graph when the weakness set of CVE i is iterated in orders[i]
circular_cwe_layout(d, top_n, orders) ==
    LET top_cwes == Take(SortedDesc(Sizes(d.cwe_to_cves)), top_n)
        top_cwe_ids == {top_cwes[i][1] : i \in DOMAIN top_cwes}
        cwes_in_top(i) == SelectSeq(orders[i], LAMBDA c : c \in top_cwe_ids)
        edge_weights == IncKeys(<<>>, Flatten([i \in DOMAIN d.cve_to_cwes |->
                                                  combinations(cwes_in_top(i))]))
    IN AddWeightedEdges(add_counted_nodes(Graph(FALSE), top_cwes, [type |-> "cwe"]), edge_weights)

\* the graphs build_circular_cwe_layout may return
build_circular_cwe_layout(d, top_n) ==
    {circular_cwe_layout(d, top_n, orders) : orders \in CweOrders(d)}

\* an edge between two authorities as soon as they share one CWE
RECURSIVE CollaborationEdgesAny(_, _, _, _)
CollaborationEdgesAny(G, pairs, cna_cwes, min_shared_cwes) ==
    IF pairs = <<>> THEN G
    ELSE LET shared == Get(cna_cwes, Head(pairs)[1], {}) \cap Get(cna_cwes, Head(pairs)[2], {}) IN
         CollaborationEdgesAny(
             IF Cardinality(shared) >= 1
             THEN add_edge(G, Head(pairs)[1], Head(pairs)[2],
                           [weight |-> Cardinality(shared), shared_count |-> Cardinality(shared)])
             ELSE G,
             Tail(pairs), cna_cwes, min_shared_cwes)

\* lines 332-337: an edge between two authorities that share enough CWEs
RECURSIVE CollaborationEdges(_, _, _, _)
CollaborationEdges(G, pairs, cna_cwes, min_shared_cwes) ==
    IF pairs = <<>> THEN G
    ELSE LET shared == Get(cna_cwes, Head(pairs)[1], {}) \cap Get(cna_cwes, Head(pairs)[2], {}) IN
         CollaborationEdges(
             IF Cardinality(shared) >= min_shared_cwes
             THEN add_edge(G, Head(pairs)[1], Head(pairs)[2],
                           [weight |-> Cardinality(shared), shared_count |-> Cardinality(shared)])
             ELSE G,
             Tail(pairs), cna_cwes, min_shared_cwes)

RECURSIVE add_cna_nodes(_, _)
add_cna_nodes(G, cna_cwes) ==
    IF cna_cwes = <<>> THEN G
    ELSE add_cna_nodes(add_node(G, Head(cna_cwes)[1],
                                [type |-> "cna", label |-> Head(cna_cwes)[1],
                                 cwe_count |-> Cardinality(Head(cna_cwes)[2])]),
                       Tail(cna_cwes))

build_cna_collaboration_network(d, min_shared_cwes) ==
    LET cna_to_cves == d.cna_to_cves
        cna_cwes == [i \in DOMAIN cna_to_cves |->
                        <<cna_to_cves[i][1],
                          UNION {Get(d.cve_to_cwes, cve_id, {}) : cve_id \in cna_to_cves[i][2]}>>]
        cnas == [i \in DOMAIN cna_cwes |-> cna_cwes[i][1]]
    IN CollaborationEdges(add_cna_nodes(Graph(FALSE), cna_cwes), combinations(cnas),
                          cna_cwes, min_shared_cwes)

\* export_graph_with_layout: the document written (node positions left out)
export_graph_with_layout(graph, type, layout_type) ==
    node_link_data(graph, [type |-> type, layout |-> layout_type,
                           node_count |-> number_of_nodes(graph),
                           edge_count |-> number_of_edges(graph)])

-----------------------------------------------------------------------------
(* The run of one script                                                   *)

Primary == "scripts/build_graph.py"
Root == "build_graph.py"
Extended == "scripts/build_extended_graphs.py"
Alternative == "scripts/build_alternative_graphs.py"
Compact == "build_compact_graphs.py"
Analytical == "scripts/build_analytical_graphs.py"

Orchestrator == "scripts/build_all.py"

Scripts == {Primary, Root, Extended, Alternative, Compact, Analytical, Orchestrator}

\* the accumulators each parser starts from
InitData(s) ==
    CASE s \in {Primary, Root} ->
           [associations |-> <<>>, cna_names |-> <<>>,
            total_files |-> 0, parsed_files |-> 0, skipped_files |-> 0, date_filtered |-> 0]
      [] s = Extended ->
           [cna_cwe_associations |-> <<>>, vendor_cwe_associations |-> <<>>,
            cna_vendor_associations |-> <<>>, cvss_data |-> <<>>, temporal_data |-> <<>>,
            cna_names |-> <<>>, total_files |-> 0, parsed_files |-> 0]
      [] s = Alternative ->
           [cve_to_cwes |-> <<>>, cve_to_products |-> <<>>, cve_to_vendors |-> <<>>,
            cve_to_cna |-> <<>>, cve_to_references |-> <<>>, cve_metadata |-> <<>>,
            total_files |-> 0, parsed_files |-> 0]
      [] s = Compact ->
           [cve_to_cwes |-> <<>>, cve_to_cna |-> <<>>, cwe_to_cves |-> <<>>,
            cna_to_cves |-> <<>>, total_files |-> 0]
      [] s = Analytical ->
           [timeline_data |-> <<>>, cwe_monthly_counts |-> <<>>, cwe_cvss_scores |-> <<>>,
            total_files |-> 0, parsed_files |-> 0]
      [] s = Orchestrator -> [results |-> <<>>, runs |-> <<>>]

\* the counters of a parser's state
Counters == {"total_files", "parsed_files", "skipped_files", "date_filtered"}

\* the mappings and lists of a parser's state, without its counters
Mappings(d) == [f \in DOMAIN d \ Counters |-> d[f]]

\* the documents the corpus of a run is drawn from
Corpus(s) ==
    CASE s = Primary -> {TwoCodes, Repeated, Undated, Unnamed, Named, Alias, Early, NaiveEarly, Garbled,
                         Anonymous, Malformed, Poisoned, Readme}
      [] s = Root -> {TwoCodes, Early, NaiveEarly, NaiveLate, Unreadable, WrongType, Readme, Orphan}
      [] s = Extended -> RichDocs \cup {NaiveLate, Anonymous, Malformed}
      [] s = Alternative -> RichDocs \cup {Late, Early, NaiveEarly, Anonymous}
      [] s = Compact -> CompactDocs \cup {Early, NaiveEarly, Anonymous, Poisoned}
      [] s = Analytical -> RichDocs \cup {Early, NaiveLate, Garbled}

\* the timestamp file beside the document, and what it may hold: the time of
\* this run, the time of an earlier run, nothing (opened and not written)
StampFile == "last_updated.txt"
ThisRun == [text |-> "this run"]
PreviousRun == [text |-> "previous run"]
Blank == [text |-> ""]

\* a document file that json.dump did not finish
Unfinished == [truncated |-> TRUE]

\* web/data before a run: empty, or with the timestamp file of an earlier run
\* of a script that writes one
Web(s) == IF s \in {Primary, Root} THEN {<<>>, <<<<StampFile, PreviousRun>>>>} ELSE {<<>>}

\* where main() of a script begins
Entry(s) == IF s = Orchestrator THEN "check" ELSE "parse"

Init ==
    /\ script \in Scripts
    /\ pc = Entry(script)
    /\ files = <<>>
    /\ outcome = <<>>
    /\ data = InitData(script)
    /\ graphs = <<>>
    /\ exported \in Web(script)

\* a walk that goes on yielding files after the parser has returned
NextFileAnytime(s) ==
    /\ script = s
    /\ Len(files) < MaxFiles
    /\ \E t \in Corpus(s) : files' = Append(files, FileOf(t, Len(files) + 1))

\* os.walk yields the next file of the corpus
NextFile(s) ==
    /\ script = s
    /\ pc = "parse"
    /\ Len(files) < MaxFiles
    /\ \E t \in Corpus(s) : files' = Append(files, FileOf(t, Len(files) + 1))

\* the parser's loop body has run on that file
Walk(results) ==
    /\ \E r \in results :
        /\ data' = r.data
        /\ outcome' = Append(outcome,
               [branch |-> r.outcome, changed |-> Mappings(r.data) # Mappings(data)])
    /\ UNCHANGED <<script, pc, graphs, exported>>

\* os.walk is exhausted and the parser returns: the corpus holds any number of
\* files up to MaxFiles, none included (an empty directory, or a missing one
\* where the parser does not look for it: os.walk then yields nothing)
Walked(s, next) ==
    /\ script = s
    /\ pc = "parse"
    /\ Len(files) <= MaxFiles
    /\ pc' = next
    /\ UNCHANGED <<script, files, outcome, data, graphs, exported>>

ParsePrimary == NextFile(Primary) /\ Walk(parse_cve_files(data, files'[Len(files')]))

ParseRoot == NextFile(Root) /\ Walk(parse_cve_files_root(data, files'[Len(files')]))

ParseExtended == NextFile(Extended) /\ Walk(parse_cve_extended_data(data, files'[Len(files')]))

ParseAlternative == NextFile(Alternative) /\ Walk(parse_cve_files_extended(data, files'[Len(files')]))

ParseCompact == NextFile(Compact) /\ Walk(parse_cve_files_compact(data, files'[Len(files')]))

ParseAnalytical == NextFile(Analytical) /\ Walk(parse_cve_analytical_data(data, files'[Len(files')]))

\* main of scripts/build_graph.py: `if not associations: sys.exit(1)`
PrimaryWalked == Walked(Primary, IF data.associations = <<>> THEN "exit(1)" ELSE "build_graph")

PrimaryBuild ==
    /\ script = Primary
    /\ pc = "build_graph"
    /\ graphs' = Put(graphs, "cna_to_cwe_map", build_graph(data.associations, data.cna_names))
    /\ pc' = "export_graph"
    /\ UNCHANGED <<script, files, outcome, data, exported>>

\* an export that writes the timestamp file before the document
stamp_then_dump(web, output_path, graph_data) ==
    LET stamped == Put(web, StampFile, ThisRun) IN
    {[web |-> stamped, pc |-> "OSError"],
     [web |-> Put(stamped, output_path, Unfinished), pc |-> "OSError"],
     [web |-> Put(stamped, output_path, graph_data), pc |-> "done"]}

\* the two writes of export_graph, in their order: open() or json.dump may
\* fail on the document, and then open() or write() on the timestamp file
dump_then_stamp(web, output_path, graph_data) ==
    LET dumped == Put(web, output_path, graph_data) IN
    {[web |-> web, pc |-> "OSError"],
     [web |-> Put(web, output_path, Unfinished), pc |-> "OSError"],
     [web |-> dumped, pc |-> "OSError"],
     [web |-> Put(dumped, StampFile, Blank), pc |-> "OSError"],
     [web |-> Put(dumped, StampFile, ThisRun), pc |-> "done"]}

\* export_graph of main(): the files and the position it leaves
Export(s, graph_data) ==
    /\ script = s
    /\ pc = "export_graph"
    /\ \E r \in dump_then_stamp(exported, "cna_to_cwe_map.json", graph_data) :
          /\ exported' = r.web
          /\ pc' = r.pc
    /\ UNCHANGED <<script, files, outcome, data, graphs>>

PrimaryExport ==
    /\ script = Primary
    /\ Export(Primary, export_cna_to_cwe_map(Get(graphs, "cna_to_cwe_map", None), data.parsed_files))

\* the corpus directory does not exist: a step of main() that finds it so
Missing(s, next) ==
    /\ script = s
    /\ pc = "parse"
    /\ files = <<>>
    /\ pc' = next
    /\ UNCHANGED <<script, files, outcome, data, graphs, exported>>

\* parse_cve_files returns (associations, cna_names, 0) and main() exits
PrimaryMissing == Missing(Primary, "exit(1)")

\* main of build_graph.py: `if not associations: return`
RootWalked == Walked(Root, IF data.associations = <<>> THEN "return" ELSE "build_graph")

\* parse_cve_files of build_graph.py returns associations alone, and
\* `associations, cna_names = parse_cve_files(...)` cannot unpack an empty dict
RootMissing == Missing(Root, "ValueError")

RootBuild ==
    /\ script = Root
    /\ pc = "build_graph"
    /\ graphs' = Put(graphs, "cna_to_cwe_map", build_graph(data.associations, data.cna_names))
    /\ pc' = "export_graph"
    /\ UNCHANGED <<script, files, outcome, data, exported>>

RootExport ==
    /\ script = Root
    /\ Export(Root, export_cna_to_cwe_map_root(Get(graphs, "cna_to_cwe_map", None)))

\* one step of a script's main(): control moves from `at` to `next`
Step(s, at, next) ==
    /\ script = s
    /\ pc = at
    /\ pc' = next
    /\ UNCHANGED <<script, files, outcome, data>>

\* one step of main() that writes a file: `with open(...) as f: json.dump(...)`
\* completes, or raises OSError, which no script catches
WriteStep(s, at, next) ==
    /\ script = s
    /\ pc = at
    /\ pc' \in {next, "OSError"}
    /\ UNCHANGED <<script, files, outcome, data>>

\* the files under web/data after a write of `document` to `name` that
\* completed, or after one that failed and left no complete document
written(name, document) ==
    IF pc' = "OSError" THEN exported ELSE Put(exported, name, document)

\* a builder that keeps its graph and writes its document
Built(name, result) ==
    /\ graphs' = Put(graphs, name, result.graph)
    /\ exported' = written(name \o ".json", result.document)

\* a builder that writes a document without a graph
Wrote(name, document) ==
    /\ exported' = written(name \o ".json", document)
    /\ UNCHANGED graphs

ExtendedWalked == Walked(Extended, "build_vendor_vulnerability_profiles")

\* main of scripts/build_extended_graphs.py: `if not os.path.exists(cve_data_dir): sys.exit(1)`
ExtendedMissing == Missing(Extended, "exit(1)")

ExtendedVendorProfiles ==
    /\ WriteStep(Extended, "build_vendor_vulnerability_profiles", "build_cna_vendor_map")
    /\ Built("vendor_vulnerability_profiles", build_vendor_vulnerability_profiles(data, TopN))

ExtendedCnaVendorMap ==
    /\ WriteStep(Extended, "build_cna_vendor_map", "build_sankey_diagram_data")
    /\ Built("cna_vendor_map", build_cna_vendor_map(data, TopN, TopN))

ExtendedSankey ==
    /\ WriteStep(Extended, "build_sankey_diagram_data", "build_heatmap_matrix")
    /\ \E document \in build_sankey_diagram_data(data, TopN, TopN) : Wrote("sankey_flow", document)

ExtendedHeatmap ==
    /\ WriteStep(Extended, "build_heatmap_matrix", "build_cvss_severity_distribution")
    /\ Wrote("heatmap_matrix", build_heatmap_matrix(data, TopN, TopN))

\* main() has no handler: a builder's exception ends the run with a traceback
ExtendedCvss ==
    /\ script = Extended
    /\ pc = "build_cvss_severity_distribution"
    /\ LET result == build_cvss_severity_distribution(data) IN
       IF result.exc # None
       THEN /\ pc' = result.exc
            /\ UNCHANGED <<graphs, exported>>
       ELSE /\ pc' \in {"build_temporal_trends", "OSError"}
            /\ Wrote("cvss_severity_distribution", result.document)
    /\ UNCHANGED <<script, files, outcome, data>>

ExtendedTemporal ==
    /\ WriteStep(Extended, "build_temporal_trends", "done")
    /\ Wrote("temporal_trends", build_temporal_trends(data))

\* a builder whose graph main() keeps for the export loop
Kept_graph(name, graph) ==
    /\ graphs' = Put(graphs, name, graph)
    /\ UNCHANGED exported

AlternativeWalked == Walked(Alternative, "build_cwe_cooccurrence_graph")

AlternativeCooccurrence ==
    /\ Step(Alternative, "build_cwe_cooccurrence_graph", "build_product_cwe_graph")
    /\ Kept_graph("cwe_cooccurrence", build_cwe_cooccurrence_graph(data))

AlternativeProductCwe ==
    /\ Step(Alternative, "build_product_cwe_graph", "build_vendor_cwe_graph")
    /\ Kept_graph("product_cwe", build_product_cwe_graph(data))

AlternativeVendorCwe ==
    /\ Step(Alternative, "build_vendor_cwe_graph", "build_cve_temporal_graph")
    /\ Kept_graph("vendor_cwe", build_vendor_cwe_graph(data))

AlternativeTemporal ==
    /\ Step(Alternative, "build_cve_temporal_graph", "build_shared_reference_graph")
    /\ \E G \in build_cve_temporal_graph(data, TEMPORAL_WINDOW_DAYS) :
          Kept_graph("cve_temporal", G)

AlternativeReferences ==
    /\ Step(Alternative, "build_shared_reference_graph", "build_product_dependency_graph")
    /\ Kept_graph("cve_references", build_shared_reference_graph(data, MIN_SHARED_REFS))

AlternativeDependency ==
    /\ Step(Alternative, "build_product_dependency_graph", "build_cna_vendor_graph")
    /\ Kept_graph("product_dependency", build_product_dependency_graph(data))

AlternativeCnaVendor ==
    /\ Step(Alternative, "build_cna_vendor_graph", "export_graph")
    /\ Kept_graph("cna_vendor", build_cna_vendor_graph(data))

\* one iteration of `for key, (name, graph) in graphs.items(): export_graph(...)`
AlternativeExport ==
    /\ script = Alternative
    /\ pc = "export_graph"
    /\ pc' \in {IF Len(exported) + 1 = Len(graphs) THEN "done" ELSE "export_graph", "OSError"}
    /\ LET item == graphs[Len(exported) + 1] IN
       exported' = written(item[1] \o "_map.json", export_graph(item[2], graph_type(item[1])))
    /\ UNCHANGED <<script, files, outcome, data, graphs>>

CompactWalked == Walked(Compact, "build_top_cna_cwe_bipartite")

\* a graph of build_compact_graphs.py, built and exported in one step of main()
Exported(name, G, type, layout_type) ==
    Built(name, [graph |-> G, document |-> export_graph_with_layout(G, type, layout_type)])

CompactBipartite ==
    /\ WriteStep(Compact, "build_top_cna_cwe_bipartite", "build_cwe_hierarchy_tree")
    /\ Exported("top_cna_cwe_bipartite", build_top_cna_cwe_bipartite(data, TopN),
                "Top CNA-CWE Bipartite", "bipartite")

CompactHierarchy ==
    /\ WriteStep(Compact, "build_cwe_hierarchy_tree", "build_cwe_star_graphs")
    /\ Exported("cwe_hierarchy_tree", build_cwe_hierarchy_tree(data, TopN),
                "CWE Hierarchy Tree", "tree")

CompactStars ==
    /\ WriteStep(Compact, "build_cwe_star_graphs", "build_circular_cwe_layout")
    /\ Exported("cwe_star_graphs", build_cwe_star_graphs(data, TopN), "CWE Star Graphs", "spring")

CompactCircular ==
    /\ WriteStep(Compact, "build_circular_cwe_layout", "build_cna_collaboration_network")
    /\ \E G \in build_circular_cwe_layout(data, TopN) :
          Exported("cwe_circular_layout", G, "Circular CWE Layout", "circular")

CompactCollaboration ==
    /\ WriteStep(Compact, "build_cna_collaboration_network", "build_cna_ego_network")
    /\ Exported("cna_collaboration", build_cna_collaboration_network(data, MIN_SHARED_CWES),
                "CNA Collaboration Network", "spring")

\* the ego network is exported when it has between 1 and 499 nodes
CompactEgo ==
    /\ script = Compact
    /\ pc = "build_cna_ego_network"
    /\ LET g == build_cna_ego_network(data, EGO_CNA_NAME, EGO_RADIUS) IN
       IF number_of_nodes(g) > 0 /\ number_of_nodes(g) < 500
       THEN /\ pc' \in {"done", "OSError"}
            /\ Exported("mitre_ego_network", g, "MITRE Ego Network", "spring")
       ELSE /\ pc' = "done"
            /\ graphs' = Put(graphs, "mitre_ego_network", g)
            /\ UNCHANGED exported
    /\ UNCHANGED <<script, files, outcome, data>>

AnalyticalWalked == Walked(Analytical, "build_attack_surface_timeline")

-----------------------------------------------------------------------------
(* scripts/build_all.py                                                    *)

BUILD_SCRIPTS ==
    <<"build_graph.py", "build_alternative_graphs.py", "build_compact_graphs.py",
      "build_extended_graphs.py">>

POST_PROCESS_SCRIPTS == <<"optimize_data.py">>

\* run_script: what can happen to one script, and what it returns.  The file
\* may be missing; subprocess.run may fail to launch the interpreter; the child
\* may exit with a non-zero status (CalledProcessError) or with zero.
run_script(script_name) ==
    {[script |-> script_name, how |-> "not found", success |-> FALSE],
     [script |-> script_name, how |-> "not launched", success |-> FALSE],
     [script |-> script_name, how |-> "failed", success |-> FALSE],
     [script |-> script_name, how |-> "completed", success |-> TRUE]}

\* a loop that stops at the failure of any script
critical_any(script_name) == TRUE

\* `script in ["build_graph.py"]`
critical(script_name) == script_name \in {"build_graph.py"}

\* a test that looks at the first script of results only
first_value(results) == results # <<>> /\ results[1][2]

\* all(results.values())
all_values(results) == \A i \in DOMAIN results : results[i][2]

\* a step of main() of scripts/build_all.py
OrchestratorStep(at) ==
    /\ script = Orchestrator
    /\ pc = at
    /\ UNCHANGED <<script, files, outcome, graphs, exported>>

\* `if not cve_data_dir.exists(): sys.exit(1)`
OrchestratorCheck ==
    /\ OrchestratorStep("check")
    /\ pc' \in {"exit(1)", "build"}
    /\ UNCHANGED data

\* one iteration of `for script in BUILD_SCRIPTS`
OrchestratorBuild ==
    /\ OrchestratorStep("build")
    /\ LET name == BUILD_SCRIPTS[Len(data.results) + 1] IN
       \E run \in run_script(name) :
           /\ data' = [results |-> Put(data.results, name, run.success),
                       runs |-> Append(data.runs, run)]
           /\ pc' = IF ~run.success /\ critical(name) THEN "post"
                    ELSE IF Len(data.results) + 1 = Len(BUILD_SCRIPTS) THEN "post"
                    ELSE "build"

\* `if all(results.values())`: the post-processing scripts run, here the one
OrchestratorPost ==
    /\ OrchestratorStep("post")
    /\ IF all_values(data.results)
       THEN \E run \in run_script(POST_PROCESS_SCRIPTS[1]) :
               data' = [results |-> Put(data.results, run.script, run.success),
                        runs |-> Append(data.runs, run)]
       ELSE UNCHANGED data
    /\ pc' = "summary"

\* sys.exit(0) when every script of results succeeded, else sys.exit(1)
OrchestratorSummary ==
    /\ OrchestratorStep("summary")
    /\ pc' = IF all_values(data.results) THEN "exit(0)" ELSE "exit(1)"
    /\ UNCHANGED data

Next ==
    \/ ParsePrimary
    \/ PrimaryWalked
    \/ PrimaryMissing
    \/ PrimaryBuild
    \/ PrimaryExport
    \/ ParseRoot
    \/ RootWalked
    \/ RootMissing
    \/ RootBuild
    \/ RootExport
    \/ ParseExtended
    \/ ExtendedWalked
    \/ ExtendedMissing
    \/ ExtendedVendorProfiles
    \/ ExtendedCnaVendorMap
    \/ ExtendedSankey
    \/ ExtendedHeatmap
    \/ ExtendedCvss
    \/ ExtendedTemporal
    \/ ParseAlternative
    \/ AlternativeWalked
    \/ AlternativeCooccurrence
    \/ AlternativeProductCwe
    \/ AlternativeVendorCwe
    \/ AlternativeTemporal
    \/ AlternativeReferences
    \/ AlternativeDependency
    \/ AlternativeCnaVendor
    \/ AlternativeExport
    \/ ParseCompact
    \/ CompactWalked
    \/ CompactBipartite
    \/ CompactHierarchy
    \/ CompactStars
    \/ CompactCircular
    \/ CompactCollaboration
    \/ CompactEgo
    \/ ParseAnalytical
    \/ AnalyticalWalked
    \/ OrchestratorCheck
    \/ OrchestratorBuild
    \/ OrchestratorPost
    \/ OrchestratorSummary

Spec == Init /\ [][Next]_vars

-----------------------------------------------------------------------------
(* The projections as functions of the parsed data and their parameters    *)

\* the largest radius an ego network is asked for
MaxRadius == 2

\* the centres an ego network is asked for: every node of the full graph, the
\* configured authority and a name no record carries
Centres(d) ==
    Range([i \in DOMAIN d.cve_to_cna |-> d.cve_to_cna[i][2]])
        \cup UNION {Get(d.cve_to_cwes, k, {}) : k \in Keys(d.cve_to_cna)}
        \cup {EGO_CNA_NAME, "nobody"}

ProjectionInit == Init /\ script \in {Compact, Extended}

CompactParsed == Walked(Compact, "project")

ExtendedParsed == Walked(Extended, "project")

\* build_cna_ego_network(data, cna_name, radius) for a centre and a radius
ProjectEgo ==
    /\ script = Compact
    /\ pc = "project"
    /\ \E c \in Centres(data), r \in 0..MaxRadius :
          graphs' = <<[projection |-> "ego", center |-> c, radius |-> r,
                       graph |-> build_cna_ego_network(data, c, r)]>>
    /\ pc' = "projected"
    /\ UNCHANGED <<script, files, outcome, data, exported>>

\* the same top-N builder of build_compact_graphs.py for two values of N
ProjectTopCompact ==
    /\ script = Compact
    /\ pc = "project"
    /\ \E n \in 0..(TopN + 1), m \in 0..(TopN + 1) :
          /\ n < m
          /\ \/ graphs' = <<[projection |-> "top_cna_cwe_bipartite", top_n |-> n, top_m |-> m,
                               graph |-> build_top_cna_cwe_bipartite(data, n),
                               larger |-> build_top_cna_cwe_bipartite(data, m)]>>
             \/ graphs' = <<[projection |-> "cwe_hierarchy_tree", top_n |-> n, top_m |-> m,
                               graph |-> build_cwe_hierarchy_tree(data, n),
                               larger |-> build_cwe_hierarchy_tree(data, m)]>>
    /\ pc' = "projected"
    /\ UNCHANGED <<script, files, outcome, data, exported>>

\* build_cna_vendor_map for two values of top_cnas and top_vendors
ProjectTopExtended ==
    /\ script = Extended
    /\ pc = "project"
    /\ \E n \in 0..(TopN + 1), m \in 0..(TopN + 1) :
          /\ n < m
          /\ graphs' = <<[projection |-> "cna_vendor_map", top_n |-> n, top_m |-> m,
                          graph |-> build_cna_vendor_map(data, n, n).graph,
                          larger |-> build_cna_vendor_map(data, m, m).graph]>>
    /\ pc' = "projected"
    /\ UNCHANGED <<script, files, outcome, data, exported>>

ProjectionNext ==
    \/ ParseCompact
    \/ CompactParsed
    \/ ProjectEgo
    \/ ProjectTopCompact
    \/ ParseExtended
    \/ ExtendedParsed
    \/ ProjectTopExtended

ProjectionSpec == ProjectionInit /\ [][ProjectionNext]_vars

-----------------------------------------------------------------------------
(* scripts/optimize_data.py                                                *)

Optimizer == "scripts/optimize_data.py"

\* the cut of optimize_product_map and optimize_vendor_map (200 and 500 in
\* main), scaled to the size of the documents
OptimizeTop == 1

FILES_TO_OPTIMIZE ==
    <<"cve_temporal_map.json", "product_dependency_map.json", "product_cwe_map.json",
      "vendor_cwe_map.json", "cna_vendor_map.json", "cve_references_map.json">>

\* `sub in text`
contains(text, sub) ==
    \E i \in 1..(Len(text) - Len(sub) + 1) : SubSeq(text, i, i + Len(sub) - 1) = sub

\* del d[k]: the file is removed
Remove(d, k) ==
    LET keep == {i \in DOMAIN d : d[i][1] # k}
        at(n) == CHOOSE i \in keep : Cardinality({j \in keep : j < i}) = n - 1
    IN [n \in 1..Cardinality(keep) |-> d[at(n)]]

\* lines 44-54: nodes counted per year, and per year and authority
RECURSIVE YearStats(_, _)
YearStats(stats, nodes) ==
    IF nodes = <<>> THEN stats
    ELSE LET node == Head(nodes)
             year == split_dash(split_dash(node.id, "")[2], "")[1]
             old == Get(stats, year, [count |-> 0, cnas |-> <<>>])
         IN YearStats(
              IF Field(node.attrs, "type", None) = "cve" /\ startswith(node.id, "CVE-")
              THEN Put(stats, year,
                       [count |-> old.count + 1,
                        cnas |-> IF "cna" \in DOMAIN node.attrs
                                 THEN Inc(old.cnas, node.attrs.cna) ELSE old.cnas])
              ELSE stats,
              Tail(nodes))

\* optimize_temporal_map: the document written over the temporal map
optimize_temporal_map(document, nodes) ==
    LET monthly_stats == YearStats(<<>>, nodes)
        periods == sorted(Keys(monthly_stats))
    IN [timeline |-> [i \in DOMAIN periods |->
                        [period |-> periods[i],
                         count |-> Get(monthly_stats, periods[i], None).count,
                         top_cnas |-> Take(SortedDesc(Get(monthly_stats, periods[i], None).cnas), 10)]],
        total_cves |-> SumOf([i \in DOMAIN monthly_stats |-> monthly_stats[i][2]], "count"),
        metadata |-> [description |-> "Aggregated CVE timeline by year", optimized |-> TRUE]]

\* lines 88-93: both ends of every link counted, link.get("value", 1) each
RECURSIVE EndCounts(_, _)
EndCounts(counts, links) ==
    IF links = <<>> THEN counts
    ELSE LET link == Head(links)
             value == Field(link.attrs, "value", 1)
             c1 == IF Truthy(link.source) THEN IncBy(counts, link.source, value) ELSE counts
             c2 == IF Truthy(link.target) THEN IncBy(c1, link.target, value) ELSE c1
         IN EndCounts(c2, Tail(links))

\* optimize_product_map: links kept when either end is a top product
optimize_product_map(document, links, top_n) ==
    LET top_products == TopKeys(EndCounts(<<>>, links), top_n)
    IN [nodes |-> {n \in document.nodes :
                      n.id \in top_products \/ Field(n.attrs, "type", None) = "cwe"},
        links |-> {l \in document.links :
                      l.source \in top_products \/ l.target \in top_products},
        metadata |-> [optimized |-> TRUE, top_n |-> top_n] @@ document.metadata]

\* lines 127-130: the source of every link counted by link.get("weight", 1)
RECURSIVE SourceCounts(_, _)
SourceCounts(counts, links) ==
    IF links = <<>> THEN counts
    ELSE SourceCounts(IncBy(counts, Head(links).source, Field(Head(links).attrs, "weight", 1)),
                      Tail(links))

\* optimize_vendor_map: links kept when both ends are kept nodes
optimize_vendor_map(document, links, top_n) ==
    LET top_vendors == TopKeys(SourceCounts(<<>>, links), top_n)
        filtered_nodes == {n \in document.nodes :
                              n.id \in top_vendors \/ Field(n.attrs, "node_type", None) = "cwe"}
        node_ids == {n.id : n \in filtered_nodes}
    IN [nodes |-> filtered_nodes,
        links |-> {l \in document.links : l.source \in node_ids /\ l.target \in node_ids},
        metadata |-> [optimized |-> TRUE, top_n |-> top_n] @@ document.metadata]

\* lines 199-214 of main: what may be done to one file; the lists of the
\* document are read in the order the file holds them
optimized(filename, document) ==
    CASE contains(filename, "temporal") ->
           {[how |-> "written", document |-> optimize_temporal_map(document, nodes)] :
              nodes \in Perms(document.nodes)}
      [] ~contains(filename, "temporal") /\ contains(filename, "product") ->
           {[how |-> "written", document |-> optimize_product_map(document, links, OptimizeTop)] :
              links \in Perms(document.links)}
      [] ~contains(filename, "temporal") /\ ~contains(filename, "product")
            /\ contains(filename, "vendor") /\ ~contains(filename, "cna") ->
           {[how |-> "written", document |-> optimize_vendor_map(document, links, OptimizeTop)] :
              links \in Perms(document.links)}
      [] ~contains(filename, "temporal") /\ ~contains(filename, "product")
            /\ ~(contains(filename, "vendor") /\ ~contains(filename, "cna"))
            /\ contains(filename, "references") ->
           {[how |-> "deleted", document |-> document]}
      [] OTHER -> {[how |-> "no strategy", document |-> document]}

\* the mappings parse_cve_files_extended may return for a list of files
RECURSIVE ParsedAll(_, _, _)
ParsedAll(d, seq, n) ==
    IF seq = <<>> THEN {d}
    ELSE UNION {ParsedAll(r.data, Tail(seq), n + 1) :
                   r \in parse_cve_files_extended(d, FileOf(Head(seq), n))}

\* the files a complete run of scripts/build_alternative_graphs.py may leave
AlternativeRun(seq) ==
    {<< <<"cwe_cooccurrence_map.json", export_graph(build_cwe_cooccurrence_graph(d), graph_type("cwe_cooccurrence"))>>,
        <<"product_cwe_map.json", export_graph(build_product_cwe_graph(d), graph_type("product_cwe"))>>,
        <<"vendor_cwe_map.json", export_graph(build_vendor_cwe_graph(d), graph_type("vendor_cwe"))>>,
        <<"cve_temporal_map.json", export_graph(T, graph_type("cve_temporal"))>>,
        <<"cve_references_map.json",
          export_graph(build_shared_reference_graph(d, MIN_SHARED_REFS), graph_type("cve_references"))>>,
        <<"product_dependency_map.json",
          export_graph(build_product_dependency_graph(d), graph_type("product_dependency"))>>,
        <<"cna_vendor_map.json", export_graph(build_cna_vendor_graph(d), graph_type("cna_vendor"))>> >> :
       d \in ParsedAll(InitData(Alternative), seq, 1),
       T \in UNION {build_cve_temporal_graph(x, TEMPORAL_WINDOW_DAYS) :
                       x \in ParsedAll(InitData(Alternative), seq, 1)}}

\* the corpora whose exports the optimizer is run on
OptimizerCorpora ==
    {seq \in [1..MaxFiles -> RichDocs \cup {Late}] : \A i, j \in 1..MaxFiles : seq[i] = seq[j] => i = j}

\* the corpus an earlier run of the pipeline was made on
EarlierCorpus == CHOOSE seq \in OptimizerCorpora : TRUE

\* the backups an optimizer run leaves beside files it found too large
Backups(web) ==
    [i \in DOMAIN FILES_TO_OPTIMIZE |->
        <<FILES_TO_OPTIMIZE[i] \o ".backup", Get(web, FILES_TO_OPTIMIZE[i], None)>>]

\* web/data holds the files of the builder run that has just ended, alone or
\* beside the backups an optimizer run left after an earlier builder run;
\* main() starts its loop
OptimizerInit ==
    /\ script = Optimizer
    /\ pc = "optimize"
    /\ files = <<>>
    /\ outcome = <<>>
    /\ data = [position |-> 0, files_processed |-> 0, last |-> "none"]
    /\ graphs = <<>>
    /\ \E seq \in OptimizerCorpora :
          \E web \in AlternativeRun(seq), earlier \in AlternativeRun(EarlierCorpus) :
              exported \in {web, web \o Backups(earlier)}

\* one iteration of `for filename, max_size_mb in FILES_TO_OPTIMIZE.items()`
\* for a file that is missing or no larger than its limit
OptimizerSkip ==
    /\ script = Optimizer
    /\ pc = "optimize"
    /\ data' = [data EXCEPT !.position = @ + 1, !.last = "skipped"]
    /\ pc' = IF data.position + 1 = Len(FILES_TO_OPTIMIZE) THEN "done" ELSE "optimize"
    /\ UNCHANGED <<script, files, outcome, graphs, exported>>

\* one iteration for a file larger than its limit: it is backed up unless a
\* backup exists, then optimized in place; on an exception the backup is
\* copied back
OptimizerFile ==
    /\ script = Optimizer
    /\ pc = "optimize"
    /\ LET filename == FILES_TO_OPTIMIZE[data.position + 1]
           backup_path == filename \o ".backup"
           document == Get(exported, filename, None)
           backed == IF Has(exported, backup_path) THEN exported
                     ELSE Put(exported, backup_path, document)
       IN /\ Has(exported, filename)
          /\ \E result \in optimized(filename, document) :
                \/ /\ result.how = "written"
                   /\ exported' = Put(backed, filename, result.document)
                   /\ data' = [data EXCEPT !.position = @ + 1, !.files_processed = @ + 1,
                                           !.last = "optimized"]
                \/ /\ result.how = "deleted"
                   /\ exported' = Remove(backed, filename)
                   /\ data' = [data EXCEPT !.position = @ + 1, !.files_processed = @ + 1,
                                           !.last = "deleted"]
                \/ /\ result.how = "no strategy"
                   /\ exported' = backed
                   /\ data' = [data EXCEPT !.position = @ + 1, !.last = "no strategy"]
                \/ /\ result.how # "no strategy"
                   /\ exported' = Put(backed, filename, Get(backed, backup_path, None))
                   /\ data' = [data EXCEPT !.position = @ + 1, !.last = "failed"]
    /\ pc' = IF data.position + 1 = Len(FILES_TO_OPTIMIZE) THEN "done" ELSE "optimize"
    /\ UNCHANGED <<script, files, outcome, graphs>>

OptimizerNext ==
    \/ OptimizerSkip
    \/ OptimizerFile

OptimizerSpec == OptimizerInit /\ [][OptimizerNext]_vars

-----------------------------------------------------------------------------
(* What the walk has seen                                                  *)

\* the parser of each script
Parser(s, d, doc) ==
    CASE s = Primary -> parse_cve_files(d, doc)
      [] s = Root -> parse_cve_files_root(d, doc)
      [] s = Extended -> parse_cve_extended_data(d, doc)
      [] s = Alternative -> parse_cve_files_extended(d, doc)
      [] s = Compact -> parse_cve_files_compact(d, doc)
      [] s = Analytical -> parse_cve_analytical_data(d, doc)

\* the ways a parser can leave its loop body on a document
Branches(s, doc) == {r.outcome : r \in Parser(s, InitData(s), doc)}

Seen == DOMAIN files

\* the documents whose loop body ran to its end
Kept(i) == outcome[i].branch = "kept"

\* the description entries of a document, of its primary and enrichment sections
Descriptions(doc) ==
    Range(doc.problemTypes) \cup (IF doc.adp.is_list THEN Range(doc.adp.problemTypes) ELSE {})

\* the code a description entry names
CodeOf(desc) == IF Truthy(desc.cweId) THEN desc.cweId ELSE desc.value

\* the deduplicated weakness set of a document
WeaknessSet(doc) ==
    {CodeOf(x) : x \in {y \in Descriptions(doc) :
        /\ y.py = "dict"
        /\ y.type = "CWE"
        /\ Truthy(CodeOf(y))
        /\ startswith(CodeOf(y), "CWE-")}}

\* the normalised vendor set of a document
VendorSet(doc) == Range(ScanVendors(doc.affected).adds)

Authorities == {files[i].assignerOrgId : i \in Seen} \ {None}
Codes == UNION {WeaknessSet(files[i]) : i \in Seen}

\* the authority-weakness counts of the scripts that keep them
AuthorityWeakness ==
    IF script = Extended THEN data.cna_cwe_associations ELSE data.associations

\* the same code in the primary section and in an enrichment section
ListedTwice(doc, w) ==
    /\ \E x \in Range(doc.problemTypes) : x.py = "dict" /\ CodeOf(x) = w
    /\ \E x \in Range(doc.adp.problemTypes) : x.py = "dict" /\ CodeOf(x) = w

\* C1: for every authority a and weakness code w, the count kept for (a, w) is
\* the number of kept documents of authority a whose deduplicated weakness set
\* contains w; a code listed in several sections of one document counts once.
AuthorityWeaknessCounts ==
    script \in {Primary, Root, Extended} =>
        /\ Keys(AuthorityWeakness) \subseteq Authorities \X Codes
        /\ \A a \in Authorities, w \in Codes :
              Get(AuthorityWeakness, <<a, w>>, 0) =
                  Cardinality({i \in Seen :
                      Kept(i) /\ files[i].assignerOrgId = a /\ w \in WeaknessSet(files[i])})

\* two kept documents of one authority share a code that one of them lists twice
AuthorityWeaknessCountsWitness ==
    /\ script \in {Primary, Extended}
    /\ \E i, j \in Seen :
          /\ i # j /\ Kept(i) /\ Kept(j)
          /\ files[i].assignerOrgId = files[j].assignerOrgId
          /\ "CWE-79" \in WeaknessSet(files[i])
          /\ ListedTwice(files[j], "CWE-79")
          /\ Get(AuthorityWeakness, <<files[i].assignerOrgId, "CWE-79">>, 0) = 2

\* the association mappings a script keeps
Associations ==
    CASE script \in {Primary, Root} -> {"cna_cwe"}
      [] script = Extended -> {"cna_cwe", "vendor_cwe", "cna_vendor"}
      [] OTHER -> {}

AssociationMapping(m) ==
    CASE m = "cna_cwe" -> AuthorityWeakness
      [] m = "vendor_cwe" -> data.vendor_cwe_associations
      [] m = "cna_vendor" -> data.cna_vendor_associations

\* what each document seen would contribute: its authority, vendors and codes
Contributions ==
    [i \in Seen |-> [kept |-> Kept(i), cna |-> files[i].assignerOrgId,
                     vendors |-> VendorSet(files[i]), cwes |-> WeaknessSet(files[i])]]

\* the first and second components one document pairs in a mapping
Firsts(m, c) == IF m = "vendor_cwe" THEN c.vendors ELSE {c.cna}
Seconds(m, c) == IF m = "cna_vendor" THEN c.vendors ELSE c.cwes

\* the kept documents that contributed a to some pair (a, *) of a mapping
Contributors(m, a, C) ==
    {i \in DOMAIN C : C[i].kept /\ a \in Firsts(m, C[i]) /\ Seconds(m, C[i]) # {}}

\* the number of pairs (a, b) the first n documents contributed to a mapping
RECURSIVE PairsContributed(_, _, _, _)
PairsContributed(m, a, C, n) ==
    IF n = 0 THEN 0
    ELSE PairsContributed(m, a, C, n - 1)
         + (IF n \in Contributors(m, a, C) THEN Cardinality(Seconds(m, C[n])) ELSE 0)

\* sum over b of mapping[(a, b)]
RowSum(mapping, a) == SumValues(SelectSeq(mapping, LAMBDA kv : kv[1][1] = a))

FirstKeys(m) == {k[1] : k \in Keys(AssociationMapping(m))}

NodeIds(document) == {n.id : n \in document.nodes}

\* a document that lists nodes and links
IsNodeLink(document) == {"nodes", "links"} \subseteq DOMAIN document

\* C3: in every graph a builder has made and in every exported document, both
\* endpoints of every edge or link are nodes of that graph or document; a
\* Sankey link names its endpoints by their positions in the node list.
EndpointsPresent ==
    /\ \A i \in DOMAIN graphs :
          \A e \in DOMAIN graphs[i][2].adj :
              Endpoints(graphs[i][2], e) \subseteq DOMAIN graphs[i][2].node
    /\ \A i \in DOMAIN exported :
          LET document == exported[i][2] IN
          IsNodeLink(document) =>
              IF exported[i][1] = "sankey_flow.json"
              THEN \A k \in DOMAIN document.links :
                      {document.links[k].source, document.links[k].target}
                          \subseteq 0..(Len(document.nodes) - 1)
              ELSE \A link \in document.links :
                      {link.source, link.target} \subseteq NodeIds(document)

\* a Sankey document with two links and a bipartite document with a link are written
EndpointsPresentWitness ==
    /\ script = Extended
    /\ Has(exported, "sankey_flow.json")
    /\ Len(Get(exported, "sankey_flow.json", None).links) >= 2
    /\ Has(exported, "cna_vendor_map.json")
    /\ Get(exported, "cna_vendor_map.json", None).links # {}

\* C4 as stated: every edge of every graph a builder has made carries a weight
\* that is a positive integer.
EdgesCarryWeight ==
    \A i \in DOMAIN graphs :
        \A e \in DOMAIN graphs[i][2].adj :
            /\ "weight" \in DOMAIN graphs[i][2].adj[e]
            /\ graphs[i][2].adj[e].weight \in Nat \ {0}

\* the number of CVEs whose weakness set, as the parser stored it, holds both codes
BothListed(w1, w2) ==
    Cardinality({i \in DOMAIN data.cve_to_cwes : {w1, w2} \subseteq data.cve_to_cwes[i][2]})

\* the weight of the edge between two nodes, 0 when there is none
WeightBetween(G, u, v) ==
    IF EdgeKey(G, u, v) \in DOMAIN G.adj THEN G.adj[EdgeKey(G, u, v)].weight ELSE 0

\* the co-occurrence graphs of the two scripts that build one
CooccurrenceGraphs ==
    {i \in DOMAIN graphs : graphs[i][1] \in {"cwe_cooccurrence", "cwe_circular_layout"}}

\* C5 as stated: in a weakness co-occurrence graph the weight of the edge between
\* two codes is the number of records whose weakness set holds both, whatever
\* order each set is enumerated in.
CooccurrenceCountsRecords ==
    \A i \in CooccurrenceGraphs :
        \A w1, w2 \in DOMAIN graphs[i][2].node :
            w1 # w2 => WeightBetween(graphs[i][2], w1, w2) = BothListed(w1, w2)

\* the per-record entries a parser has stored under an identifier
StoredUnder(id) ==
    \/ \E f \in {"cve_to_cwes", "cve_to_products", "cve_to_vendors", "cve_to_cna",
                 "cve_to_references", "cve_metadata"} \cap DOMAIN data : Has(data[f], id)
    \/ \E f \in {"cvss_data", "temporal_data", "timeline_data"} \cap DOMAIN data :
          \E k \in DOMAIN data[f] : data[f][k].cve_id = id

\* C6 as stated: a document without a record identifier adds nothing to any
\* mapping, association count, severity list or temporal list of any parser,
\* and nothing is stored under a placeholder identifier.
IdentifierRequired ==
    /\ \A i \in Seen : files[i].load = "ok" /\ files[i].cveId = None => ~outcome[i].changed
    /\ ~StoredUnder("Unknown")

\* a timestamp datetime.fromisoformat accepts
Parseable(date_published) ==
    DateTruthy(date_published) /\ fromisoformat(date_published).exc = None

\* C7 as stated: no document with a parseable timestamp strictly before the
\* cutoff contributes to any mapping.
AcceptedNotBeforeCutoff ==
    \A i \in Seen :
        outcome[i].changed /\ Parseable(files[i].datePublished) =>
            fromisoformat(files[i].datePublished).t >= cutoff_date

\* the same document with its timestamp given an explicit UTC offset
AsUtc(doc) == [doc EXCEPT !.datePublished = Z(@.day)]

\* C8 as stated: a document whose timestamp has no offset is treated as the
\* same document with that timestamp in UTC: kept at or after the cutoff,
\* dropped before it, never skipped as an error or kept unfiltered.
NaiveComparedAsUtc ==
    \A i \in Seen :
        files[i].load = "ok" /\ files[i].datePublished.fmt = "naive" =>
            outcome[i].branch \in Branches(script, AsUtc(files[i]))

\* the same document with a timestamp that passes the filter
AsRecent(doc) == [doc EXCEPT !.datePublished = After]

\* C9 as stated: a document whose timestamp is present but unparseable is kept:
\* it is not date-filtered and fares as it would with a timestamp that passes.
UnparseableKept ==
    \A i \in Seen :
        /\ files[i].load = "ok"
        /\ DateTruthy(files[i].datePublished)
        /\ fromisoformat(files[i].datePublished).exc \in {"ValueError", "AttributeError"}
        => outcome[i].branch \in Branches(script, AsRecent(files[i]))

\* the exceptions that end a script with a traceback
Uncaught == {"TypeError", "ValueError", "AttributeError", "KeyError"}

\* C10 as stated: no value that one document supplied or omitted ends the run
\* of a parser or makes a later builder fail.
RecordProblemsContained == files # <<>> => pc \notin Uncaught

\* where a run of a script has ended
Ended == {"done", "return", "exit(1)"} \cup Uncaught \cup {"OSError"}

\* the exit status of the interpreter: 0 when main() returns, 1 after
\* sys.exit(1) or an uncaught exception
ExitStatus(p) == IF p \in {"done", "return"} THEN 0 ELSE 1

\* C11 as stated: when the aggregation pass of a build_graph script ends with
\* no association, the run ends with a non-zero exit status and has built and
\* exported nothing.
EmptyResultIsFatal ==
    script \in {Primary, Root} /\ pc # "parse" /\ data.associations = <<>> =>
        /\ pc \in Ended
        /\ ExitStatus(pc) # 0
        /\ graphs = <<>>
        /\ exported = <<>>

\* the scripts the orchestrator has handed to run_script, which starts each
\* one whose file exists
Ran == {data.runs[i].script : i \in DOMAIN data.runs}

\* C12: when build_graph.py fails, the orchestrator runs no other build script
\* and no post-processing; when build_graph.py succeeded and the build loop is
\* over, every build script has been run in the declared order, whatever the
\* secondary scripts returned.
PrimaryHaltsSecondaryTolerated ==
    script = Orchestrator =>
        /\ \A i \in DOMAIN data.runs :
              i <= Len(BUILD_SCRIPTS) => data.runs[i].script = BUILD_SCRIPTS[i]
        /\ Has(data.results, "build_graph.py") /\ ~Get(data.results, "build_graph.py", FALSE)
              => Ran = {"build_graph.py"}
        /\ pc \in {"post", "summary", "exit(0)", "exit(1)"} /\ Get(data.results, "build_graph.py", FALSE)
              => Range(BUILD_SCRIPTS) \subseteq Ran

\* a secondary script failed and the scripts after it were started all the same
PrimaryHaltsSecondaryToleratedWitness ==
    /\ script = Orchestrator
    /\ pc = "exit(1)"
    /\ Len(data.runs) = Len(BUILD_SCRIPTS)
    /\ data.runs[1].how = "completed"
    /\ data.runs[2].how = "failed"
    /\ data.runs[3].how = "completed"
    /\ data.runs[4].how = "completed"

\* the files a complete run of a script writes; the ego network is written
\* only when it has a node
Outputs(s) ==
    CASE s = Extended ->
           {"vendor_vulnerability_profiles.json", "cna_vendor_map.json", "sankey_flow.json",
            "heatmap_matrix.json", "cvss_severity_distribution.json", "temporal_trends.json"}
      [] s = Alternative ->
           {"cwe_cooccurrence_map.json", "product_cwe_map.json", "vendor_cwe_map.json",
            "cve_temporal_map.json", "cve_references_map.json", "product_dependency_map.json",
            "cna_vendor_map.json"}
      [] s = Compact ->
           {"top_cna_cwe_bipartite.json", "cwe_hierarchy_tree.json", "cwe_star_graphs.json",
            "cwe_circular_layout.json", "cna_collaboration.json"}

\* C13 as stated: when a run of a builder script ended with an I/O error at a
\* write, the failed projection is the only one the run has not exported.
WriteFailureConfined ==
    script \in {Extended, Alternative, Compact} /\ pc = "OSError" =>
        Cardinality(Outputs(script) \ Keys(exported)) <= 1

\* C14: in every builder script, nothing is built or exported while the
\* parser is still walking the corpus, and once the walk is over no step
\* reads another file or changes a mapping: every projection is computed from
\* the same, complete mappings.
ParseBeforeProjections ==
    [][script # Orchestrator =>
          /\ pc = "parse" => graphs = <<>> /\ exported \in Web(script)
          /\ pc # "parse" => data' = data /\ files' = files
          /\ graphs' # graphs \/ exported' # exported => pc # "parse" /\ pc' # "parse"]_vars

\* every projection of the extended script has been written from a parsed corpus
ParseBeforeProjectionsWitness ==
    /\ script = Extended
    /\ pc = "done"
    /\ Len(files) = MaxFiles
    /\ data.cna_cwe_associations # <<>>
    /\ Keys(exported) = Outputs(Extended)

\* the authority-weakness graph of the stored records: an authority and a
\* weakness are joined when some record has both
BaseEdges ==
    {{data.cve_to_cna[i][2], w} :
        i \in DOMAIN data.cve_to_cna, w \in UNION {Get(data.cve_to_cwes, k, {}) : k \in Keys(data.cve_to_cna)}}
    \cap UNION {{{data.cve_to_cna[i][2], w} : w \in Get(data.cve_to_cwes, data.cve_to_cna[i][1], {})} :
                   i \in DOMAIN data.cve_to_cna}

BaseNodes == UNION BaseEdges

\* n is at most r edges away from c: some walk of at most r edges joins them
Near(c, n, r) ==
    \E k \in 0..r : \E p \in [1..(k + 1) -> BaseNodes] :
        /\ p[1] = c
        /\ p[k + 1] = n
        /\ \A i \in 1..k : {p[i], p[i + 1]} \in BaseEdges

\* C15: the ego network for centre c and radius r has exactly the nodes at
\* most r edges from c in the authority-weakness graph, c included, and
\* exactly the edges of that graph between two of them; at radius 0 it is c
\* alone without edges; for a centre that is no node of the graph it is empty.
EgoIsNeighbourhood ==
    \A i \in DOMAIN graphs :
        graphs[i].projection = "ego" =>
            LET G == graphs[i].graph
                c == graphs[i].center
                r == graphs[i].radius
                edges == {Endpoints(G, e) : e \in DOMAIN G.adj}
            IN IF c \notin BaseNodes
               THEN DOMAIN G.node = {} /\ edges = {}
               ELSE /\ DOMAIN G.node = {n \in BaseNodes : Near(c, n, r)}
                    /\ edges = {e \in BaseEdges : e \subseteq DOMAIN G.node}
                    /\ r = 0 => DOMAIN G.node = {c} /\ edges = {}

\* the ego network of mitre at radius 1 holds mitre and its two weaknesses and
\* leaves out the authority B, which shares them
EgoIsNeighbourhoodWitness ==
    \E i \in DOMAIN graphs :
        /\ graphs[i].projection = "ego"
        /\ graphs[i].center = "mitre"
        /\ graphs[i].radius = 1
        /\ DOMAIN graphs[i].graph.node = {"mitre", "CWE-79", "CWE-89"}
        /\ "B" \in BaseNodes

\* C16: for the same parsed data and N < M, every node of a projection built
\* with top-N is a node of the same projection built with top-M.
TopNMonotonic ==
    \A i \in DOMAIN graphs :
        "larger" \in DOMAIN graphs[i] =>
            DOMAIN graphs[i].graph.node \subseteq DOMAIN graphs[i].larger.node

\* a cut that leaves an authority out at N = 1 and takes it in at N = 2
TopNMonotonicWitness ==
    \E i \in DOMAIN graphs :
        /\ graphs[i].projection = "top_cna_cwe_bipartite"
        /\ graphs[i].top_n = 1
        /\ graphs[i].top_m = 2
        /\ DOMAIN graphs[i].graph.node # {}
        /\ DOMAIN graphs[i].graph.node # DOMAIN graphs[i].larger.node

\* the file a script writes the graph it keeps under `name` to
FileFor(s, name) == IF s = Alternative THEN name \o "_map.json" ELSE name \o ".json"

\* the per-type node counts a metadata block stores, added up
TypedCount(m) ==
    (IF "cna_count" \in DOMAIN m THEN m.cna_count ELSE 0)
        + (IF "cwe_count" \in DOMAIN m THEN m.cwe_count ELSE 0)
        + (IF "vendor_count" \in DOMAIN m THEN m.vendor_count ELSE 0)

\* C17: every exported document of a graph lists as many nodes and links as
\* the graph has nodes and edges, and the node and edge counts of its
\* metadata (node_count, or the per-type counts added up, and edge_count) are
\* those numbers.
ExportKeepsCounts ==
    \A i \in DOMAIN graphs :
        script \in Scripts \ {Orchestrator} /\ pc # "projected"
            /\ Has(exported, FileFor(script, graphs[i][1]))
            /\ Get(exported, FileFor(script, graphs[i][1]), None) # Unfinished =>
            LET G == graphs[i][2]
                document == Get(exported, FileFor(script, graphs[i][1]), None)
                m == document.metadata
            IN /\ Cardinality(document.nodes) = Cardinality(DOMAIN G.node)
               /\ Cardinality(document.links) = Cardinality(DOMAIN G.adj)
               /\ "node_count" \in DOMAIN m => m.node_count = Cardinality(DOMAIN G.node)
               /\ "edge_count" \in DOMAIN m /\ m.edge_count = Cardinality(DOMAIN G.adj)
               /\ DOMAIN m \cap {"cna_count", "cwe_count", "vendor_count"} # {}
                     => TypedCount(m) = Cardinality(DOMAIN G.node)

\* a node-link document and a bipartite document with links have been written
ExportKeepsCountsWitness ==
    \/ /\ script = Compact
       /\ Has(exported, "cwe_hierarchy_tree.json")
       /\ Cardinality(Get(exported, "cwe_hierarchy_tree.json", None).links) >= 3
    \/ /\ script = Extended
       /\ Has(exported, "vendor_vulnerability_profiles.json")
       /\ Cardinality(Get(exported, "vendor_vulnerability_profiles.json", None).links) >= 2

\* the interchange documents among the files, backups aside
Documents == {i \in DOMAIN exported : ~endswith(exported[i][1], ".backup")}

\* C18 as stated: every document under web/data is an interchange document
\* after the optimizer has processed it: it has a node list, a link list and
\* a metadata block, and every link joins two of its nodes.
OptimizedStaysInterchange ==
    script = Optimizer =>
        \A i \in Documents :
            LET document == exported[i][2] IN
            /\ {"nodes", "links", "metadata"} \subseteq DOMAIN document
            /\ \A link \in document.links : {link.source, link.target} \subseteq NodeIds(document)

\* C20 as stated: an authority of which some record read by the parser
\* supplies the short name appears in the graph under that short name, and
\* not under its opaque identifier, whichever of its records was read first.
AuthorityNamedByShortName ==
    script = Primary =>
        \A g \in DOMAIN graphs : \A i \in Seen :
            LET short == files[i].assignerShortName
                uuid == files[i].assignerOrgId
                names == DOMAIN graphs[g][2].node
            IN Kept(i) /\ Truthy(short) /\ {short, uuid} \cap names # {} =>
                   short \in names /\ uuid \notin names

\* what the timestamp file holds, None when there is none
StampText(web) == IF Has(web, StampFile) THEN Get(web, StampFile, None).text ELSE None

\* the document of the run's graph is in web/data, whole
Complete(web) ==
    /\ Has(web, "cna_to_cwe_map.json")
    /\ Has(graphs, "cna_to_cwe_map")
    /\ Get(web, "cna_to_cwe_map.json", None) =
          IF script = Primary
          THEN export_cna_to_cwe_map(Get(graphs, "cna_to_cwe_map", None), data.parsed_files)
          ELSE export_cna_to_cwe_map_root(Get(graphs, "cna_to_cwe_map", None))

\* a step of export_graph that does not leave the complete document leaves
\* the timestamp file as it was
StampKept ==
    script \in {Primary, Root} /\ pc = "export_graph" /\ ~Complete(exported')
        => StampText(exported') = StampText(exported)

\* the timestamp file holds the time of this run only beside the complete
\* document of this run
StampedWhenComplete ==
    script \in {Primary, Root} /\ StampText(exported) = ThisRun.text => Complete(exported)

\* C19: the timestamp file is written only after the document has been
\* written completely, and an export whose document write fails leaves the
\* timestamp file with the content it had before.
StampAfterDocument == []StampedWhenComplete /\ [][StampKept]_vars

\* json.dump failed part-way and the timestamp of the earlier run is still there
StampAfterDocumentWitness ==
    /\ script = Primary
    /\ pc = "OSError"
    /\ Has(exported, "cna_to_cwe_map.json")
    /\ Get(exported, "cna_to_cwe_map.json", None) = Unfinished
    /\ StampText(exported) = PreviousRun.text

\* the name an authority identifier is shown under
NameOf(cna_uuid) == Get(data.cna_names, cna_uuid, cna_uuid)

\* the association count between a node name and a code, over every
\* identifier shown under that name
NamedTotal(name, w) ==
    SumValues(SelectSeq(data.associations,
                        LAMBDA kv : NameOf(kv[1][1]) = name /\ kv[1][2] = w))

\* C21 as stated: in the authority-weakness graph the weight of the edge
\* between an authority node and a weakness node is the association count
\* between them, added up over every identifier shown under the node's name.
BipartiteWeightIsTotal ==
    script = Primary =>
        \A g \in DOMAIN graphs : \A a \in Authorities, w \in Codes :
            WeightBetween(graphs[g][2], NameOf(a), w) = NamedTotal(NameOf(a), w)

\* the publication timestamp the alternative parser stored for a record
Published(id) == Get(data.cve_metadata, id, [published |-> NoDate]).published

Dated(id) == DateTruthy(Published(id)) /\ fromisoformat(Published(id)).exc = None

\* the whole days between the timestamps of two dated records
DaysBetween(a, b) ==
    LET d == fromisoformat(Published(a)).t - fromisoformat(Published(b)).t
    IN IF d < 0 THEN 0 - d ELSE d

\* the (vendor, product) keys stored for a record
ProductKeys(id) == {product_key(vp) : vp \in Get(data.cve_to_products, id, {})}

ReferencesOf(id) == Get(data.cve_to_references, id, {})

\* C23: the reference-sharing graph joins two distinct records exactly when
\* at least MIN_SHARED_REFS URL strings are stored for both; the weight and
\* shared_refs of the edge are the number of URLs stored for both, and every
\* node of the graph has an edge.
SharedReferencesMeetThreshold ==
    script = Alternative /\ Has(graphs, "cve_references") =>
        LET G == Get(graphs, "cve_references", None)
            ids == Keys(data.cve_to_references)
        IN /\ \A e \in DOMAIN G.adj : e \subseteq ids /\ Cardinality(e) = 2
           /\ \A n \in DOMAIN G.node : \E e \in DOMAIN G.adj : n \in e
           /\ \A a, b \in ids :
                 a # b =>
                    LET shared == Cardinality(ReferencesOf(a) \cap ReferencesOf(b)) IN
                    /\ {a, b} \in DOMAIN G.adj <=> shared >= MIN_SHARED_REFS
                    /\ {a, b} \in DOMAIN G.adj =>
                          /\ G.adj[{a, b}].weight = shared
                          /\ G.adj[{a, b}].shared_refs = shared

\* two records that share two URLs are joined
SharedReferencesMeetThresholdWitness ==
    /\ script = Alternative /\ Has(graphs, "cve_references")
    /\ \E e \in DOMAIN Get(graphs, "cve_references", None).adj :
          Get(graphs, "cve_references", None).adj[e].weight = 2

\* the number of stored records that carry a weakness code
RecordsCarrying(w) == Cardinality(Get(data.cwe_to_cves, w, {}))

\* the total incident weight of a code in the co-occurrence of all stored
\* records: one for every other code of every record that carries it
RawIncident(w) ==
    SumValues([i \in DOMAIN data.cve_to_cwes |->
                  <<i, IF w \in data.cve_to_cwes[i][2]
                       THEN Cardinality(data.cve_to_cwes[i][2]) - 1 ELSE 0>>])

\* the circular graph keeps only what lies between its nodes, and its nodes
\* are min(TopN, number of codes) codes
CircularCut(G) ==
    /\ DOMAIN G.node \subseteq Keys(data.cwe_to_cves)
    /\ Cardinality(DOMAIN G.node) =
          IF Cardinality(Keys(data.cwe_to_cves)) < TopN
          THEN Cardinality(Keys(data.cwe_to_cves)) ELSE TopN
    /\ \A e \in DOMAIN G.adj : e \subseteq DOMAIN G.node
    /\ \A a, b \in DOMAIN G.node :
          a # b => ({a, b} \in DOMAIN G.adj <=>
                       \E i \in DOMAIN data.cve_to_cwes : {a, b} \subseteq data.cve_to_cwes[i][2])

\* C24 as stated: the nodes of the circular projection are the top-N codes by
\* total incident weight, and only pairs of selected codes are edges.
CircularTopByIncidentWeight ==
    script = Compact /\ Has(graphs, "cwe_circular_layout") =>
        LET G == Get(graphs, "cwe_circular_layout", None) IN
        /\ CircularCut(G)
        /\ \A n \in DOMAIN G.node : \A m \in Keys(data.cwe_to_cves) \ DOMAIN G.node :
              RawIncident(n) >= RawIncident(m)

\* C24, amended: the nodes of the circular projection are the top-N codes by
\* the number of records that carry them; a pair with a code outside the
\* selection gives neither an edge nor a node, and two selected codes are
\* joined exactly when some record carries both.
CircularTopByRecordCount ==
    script = Compact /\ Has(graphs, "cwe_circular_layout") =>
        LET G == Get(graphs, "cwe_circular_layout", None) IN
        /\ CircularCut(G)
        /\ \A n \in DOMAIN G.node : \A m \in Keys(data.cwe_to_cves) \ DOMAIN G.node :
              RecordsCarrying(n) >= RecordsCarrying(m)

\* a record carries a selected code together with a code that is cut
CircularTopByRecordCountWitness ==
    /\ script = Compact /\ Has(graphs, "cwe_circular_layout")
    /\ \E i \in DOMAIN data.cve_to_cwes :
          \E a, b \in data.cve_to_cwes[i][2] :
              /\ a \in DOMAIN Get(graphs, "cwe_circular_layout", None).node
              /\ b \notin DOMAIN Get(graphs, "cwe_circular_layout", None).node

\* the weakness set derived for an authority: the codes of all its records
DerivedWeaknesses(cna) ==
    UNION {Get(data.cve_to_cwes, cve_id, {}) : cve_id \in Get(data.cna_to_cves, cna, {})}

\* C25: in the collaboration projection every authority with a stored record
\* is a node; two distinct authorities are joined exactly when their derived
\* weakness sets have at least MIN_SHARED_CWES codes in common, and the
\* weight and shared_count of the edge are the number of common codes.
CollaborationBySharedCodes ==
    script = Compact /\ Has(graphs, "cna_collaboration") =>
        LET G == Get(graphs, "cna_collaboration", None)
            cnas == Keys(data.cna_to_cves)
        IN /\ DOMAIN G.node = cnas
           /\ \A e \in DOMAIN G.adj : e \subseteq cnas /\ Cardinality(e) = 2
           /\ \A a, b \in cnas :
                 a # b =>
                    LET shared == Cardinality(DerivedWeaknesses(a) \cap DerivedWeaknesses(b)) IN
                    /\ {a, b} \in DOMAIN G.adj <=> shared >= MIN_SHARED_CWES
                    /\ {a, b} \in DOMAIN G.adj =>
                          /\ G.adj[{a, b}].weight = shared
                          /\ G.adj[{a, b}].shared_count = shared

\* two authorities whose derived sets share two codes are joined
CollaborationBySharedCodesWitness ==
    /\ script = Compact /\ Has(graphs, "cna_collaboration")
    /\ \E a, b \in Keys(data.cna_to_cves) :
          /\ a # b
          /\ Cardinality(DerivedWeaknesses(a) \cap DerivedWeaknesses(b)) = 2
          /\ {a, b} \in DOMAIN Get(graphs, "cna_collaboration", None).adj

\* the nodes an edge of a directed graph leads to n from
Parents(G, n) == {e[1] : e \in {x \in DOMAIN G.adj : x[2] = n}}

\* the name of the category node of a weakness code
CategoryName(cwe) == "CWE-" \o ToString(category_of(cwe)) \o "xx"

\* the number of records carrying the codes of a set, added up
RECURSIVE RecordsCarryingAny(_)
RecordsCarryingAny(S) ==
    IF S = {} THEN 0
    ELSE LET w == CHOOSE x \in S : TRUE IN RecordsCarrying(w) + RecordsCarryingAny(S \ {w})

\* C26 as stated: the hierarchy projection is a tree of three levels: the
\* root has no parent, the only parent of a category is the root, the only
\* parent of a selected weakness is the category of its numeric suffix (bucket
\* 0 without one); a category edge weighs the sum of its leaf edges and a
\* leaf edge weighs the number of records that carry the weakness.
HierarchyIsTree ==
    script = Compact /\ Has(graphs, "cwe_hierarchy_tree") =>
        LET G == Get(graphs, "cwe_hierarchy_tree", None)
            leaves == DOMAIN G.node \cap Keys(data.cwe_to_cves)
            categories == {CategoryName(l) : l \in leaves}
            under(c) == {l \in leaves : CategoryName(l) = c}
        IN /\ DOMAIN G.node = {"root"} \cup categories \cup leaves
           /\ Cardinality(leaves) =
                 IF Cardinality(Keys(data.cwe_to_cves)) < TopN
                 THEN Cardinality(Keys(data.cwe_to_cves)) ELSE TopN
           /\ Parents(G, "root") = {}
           /\ \A c \in categories :
                 /\ Parents(G, c) = {"root"}
                 /\ G.adj[<<"root", c>>].weight = RecordsCarryingAny(under(c))
           /\ \A l \in leaves :
                 /\ Parents(G, l) = {CategoryName(l)}
                 /\ G.adj[<<CategoryName(l), l>>].weight = RecordsCarrying(l)

\* C27 as stated: a document that is skipped because an exception was
\* raised while it was processed leaves every mapping, association count and
\* name table as it was before the document was read.
SkippedLeavesNothing ==
    script \in {Primary, Alternative, Compact} =>
        \A i \in Seen : outcome[i].branch = "error" => ~outcome[i].changed

\* the scripts in the order the orchestrator declares them
Declared == BUILD_SCRIPTS \o POST_PROCESS_SCRIPTS

\* C28: the orchestrator hands the scripts to run_script one after another in
\* the declared order; the optimizer is started only when every build script
\* of the list has been run and has succeeded, and never after a build script
\* failed.
OptimizerAfterAllBuilds ==
    script = Orchestrator =>
        /\ Len(data.runs) <= Len(Declared)
        /\ \A i \in DOMAIN data.runs : data.runs[i].script = Declared[i]
        /\ POST_PROCESS_SCRIPTS[1] \in Ran =>
              \A k \in DOMAIN BUILD_SCRIPTS :
                  data.runs[k].script = BUILD_SCRIPTS[k] /\ data.runs[k].how = "completed"
        /\ (\E i \in DOMAIN data.runs :
                data.runs[i].script \in Range(BUILD_SCRIPTS) /\ ~data.runs[i].success)
              => POST_PROCESS_SCRIPTS[1] \notin Ran

\* the four build scripts completed and the optimizer was started
OptimizerAfterAllBuildsWitness ==
    /\ script = Orchestrator
    /\ Len(data.runs) = Len(Declared)
    /\ data.runs[Len(Declared)].script = POST_PROCESS_SCRIPTS[1]
    /\ data.runs[Len(Declared)].how \in {"completed", "failed"}

\* one iteration of the optimizer's loop restores a file whose optimization
\* failed to the content it had before the iteration, and leaves web/data as
\* it is when it skips a file
RestoredOrUntouched ==
    script = Optimizer /\ pc = "optimize" =>
        LET filename == FILES_TO_OPTIMIZE[data.position + 1] IN
        /\ data'.last = "failed" =>
              /\ Has(exported', filename)
              /\ Get(exported', filename, None) = Get(exported, filename, None)
        /\ data'.last = "skipped" => exported' = exported

\* C29 as stated: whatever runs came before, a file whose optimization fails
\* is restored to exactly the content it had immediately before the attempt,
\* and a file at or under its threshold is left unchanged, without a backup.
FailedOptimizationRestored == [][RestoredOrUntouched]_vars

\* the files the primary parser has put into one of its three classes
Classified(d) == d.date_filtered + d.skipped_files + d.parsed_files

\* the classified files never outnumber the files counted
ClassifiedWithinTotal == script = Primary => Classified(data) <= data.total_files

\* one iteration of the loader's loop: a file named CVE-*.json is counted
\* once and put into at most one class; any other file changes nothing
CountedOnce ==
    script = Primary /\ files' # files =>
        IF IsCveFile(files'[Len(files')].name)
        THEN /\ data'.total_files = data.total_files + 1
             /\ Classified(data') - Classified(data) \in {0, 1}
             /\ \A c \in {"date_filtered", "skipped_files", "parsed_files"} : data'[c] >= data[c]
        ELSE data' = data

\* C30: in the loader pass of the primary parser every file named CVE-*.json
\* adds one to total_files and one to at most one of date_filtered,
\* skipped_files and parsed_files, so their sum never exceeds total_files;
\* a file with another name changes no counter and no mapping.
CountersAccountForFiles == []ClassifiedWithinTotal /\ [][CountedOnce]_vars

\* a file with another name was passed over and the next file, counted once,
\* was skipped
CountersAccountForFilesWitness ==
    /\ script = Primary
    /\ Len(files) = 2
    /\ ~IsCveFile(files[1].name)
    /\ outcome[2].branch = "error"
    /\ data.total_files = 1
    /\ data.skipped_files = 1

====
